---------------------------- MODULE Spec2Model ----------------------------
(***************************************************************************)
(* A model of tools/unfolding-word/uw-grab-bibles.js: the USFM generator   *)
(* uwGenerateUsfm.generate(), which walks the tag records of every .usfm   *)
(* file of a folder and assembles the chapter records of a Bible.          *)
(*                                                                         *)
(* Strings are sequences of one-character strings, so that the string      *)
(* functions of the code (trim, split, indexOf, substring, parseInt, the   *)
(* number-to-string conversion of '+') are computed and not assumed.       *)
(* The html of a chapter is the sequence of the fragments the code         *)
(* concatenates, each fragment naming the template that produced it.       *)
(*                                                                         *)
(* The module also models tools/unfolding-word/uw-grab-available-texts.js: *)
(* process() and the callbacks of the requests it chains.                  *)
(***************************************************************************)
EXTENDS Integers, Sequences, FiniteSets, TLC

(***************************************************************************)
(* Bounds of the model.                                                    *)
(***************************************************************************)
\* .usfm files (units) one run reads
MaxUnits == 2
\* lines one run reads, under the full alphabet (Spec)
MaxTags == 2
\* files without the .usfm extension one run meets
MaxOther == 1
\* files and lines of a run under SpecChapters
ChapUnits == 2
ChapTags == 4
\* files and lines of a run under SpecBlocks
BlockUnits == 2
BlockTags == 4
\* files and lines of a run under SpecIndex
IndexUnits == 2
IndexTags == 4
\* lines of a run under SpecCloses
CloseTags == 4
\* lines of a run under SpecInline
InlineTags == 3
\* files and lines of a run under SpecNotes
NoteUnits == 2
NoteTags == 4
\* files and lines of a run under SpecToc
TocUnits == 2
TocTags == 3

(***************************************************************************)
(* JavaScript values.                                                      *)
(***************************************************************************)
\* null and undefined: one-element sequences, unlike every string of characters
Null == <<"null">>
Undefined == <<"undefined">>
\* the number NaN (parseInt's result on a string without a leading digit)
NaN == -1

Whitespace == {" ", "\t"}
Digits == <<"0", "1", "2", "3", "4", "5", "6", "7", "8", "9">>
IsDigit(ch) == \E d \in 1..10 : Digits[d] = ch
DigitVal(ch) == (CHOOSE d \in 1..10 : Digits[d] = ch) - 1

\* String.prototype.trim
RECURSIVE trimLeft(_)
trimLeft(t) ==
    IF t # <<>> /\ Head(t) \in Whitespace THEN trimLeft(Tail(t)) ELSE t
RECURSIVE trimRight(_)
trimRight(t) ==
    IF t # <<>> /\ t[Len(t)] \in Whitespace
        THEN trimRight(SubSeq(t, 1, Len(t) - 1))
        ELSE t
trim(t) == trimRight(trimLeft(t))

\* String.prototype.indexOf(ch): the 0-based place of the first ch, or -1
indexOf(t, ch) ==
    IF \E i \in 1..Len(t) : t[i] = ch
        THEN (CHOOSE i \in 1..Len(t) : t[i] = ch /\ \A j \in 1..(i - 1) : t[j] # ch) - 1
        ELSE -1

\* String.prototype.substring(start[, end]), 0-based, end exclusive
substring(t, start, end) ==
    LET lo == IF start < 0 THEN 0 ELSE IF start > Len(t) THEN Len(t) ELSE start
        hi == IF end < 0 THEN 0 ELSE IF end > Len(t) THEN Len(t) ELSE end
    IN  IF lo <= hi THEN SubSeq(t, lo + 1, hi) ELSE SubSeq(t, hi + 1, lo)
substringFrom(t, start) == substring(t, start, Len(t))

\* text.split(' ')[0]: the characters before the first space
splitFirst(t) ==
    IF indexOf(t, " ") = -1 THEN t ELSE substring(t, 0, indexOf(t, " "))

\* String.prototype.toUpperCase, on the letters the modelled inputs use
upperChar(ch) ==
    CASE ch = "g" -> "G" [] ch = "e" -> "E" [] ch = "n" -> "N"
      [] ch = "p" -> "P" [] ch = "s" -> "S" [] ch = "a" -> "A"
      [] ch = "x" -> "X" [] ch = "u" -> "U" [] ch = "l" -> "L"
      [] ch = "b" -> "B" [] ch = "d" -> "D" [] OTHER -> ch
toUpperCase(t) == [i \in 1..Len(t) |-> upperChar(t[i])]

\* text.replace(/\s/g, '')
RECURSIVE removeWhitespace(_)
removeWhitespace(t) ==
    IF t = <<>> THEN <<>>
    ELSE IF Head(t) \in Whitespace THEN removeWhitespace(Tail(t))
    ELSE <<Head(t)>> \o removeWhitespace(Tail(t))

\* parseInt of an unsigned decimal string: leading whitespace is skipped, the
\* leading digits are read, NaN when there is none
RECURSIVE leadingDigits(_, _)
leadingDigits(t, acc) ==
    IF t # <<>> /\ IsDigit(Head(t))
        THEN leadingDigits(Tail(t), acc * 10 + DigitVal(Head(t)))
        ELSE acc
parseInt(t) ==
    LET u == trimLeft(t)
    IN  IF u # <<>> /\ IsDigit(Head(u)) THEN leadingDigits(u, 0) ELSE NaN

\* Number.prototype.toString and the conversion '+' applies to a number
RECURSIVE digitsOf(_)
digitsOf(n) ==
    IF n < 10 THEN <<Digits[n + 1]>>
    ELSE digitsOf(n \div 10) \o <<Digits[(n % 10) + 1]>>
numberToString(n) == IF n = NaN THEN <<"N", "a", "N">> ELSE digitsOf(n)

\* the conversion '+' applies to a string, null or undefined operand
toStr(v) ==
    IF v = Null THEN <<"n", "u", "l", "l">>
    ELSE IF v = Undefined THEN <<"u", "n", "d", "e", "f", "i", "n", "e", "d">>
    ELSE v


(***************************************************************************)
(* The collaborators of the generator that live outside src/: the book     *)
(* table (data/bible_data) and the formatter (bible_formatter).            *)
(***************************************************************************)
\* the object literal {} of line 224: every property reads as undefined
EmptyObject == [dbsCode |-> Undefined, name |-> Undefined, eng0 |-> Undefined, resolved |-> TRUE]
\* what the book table returns for a code it does not know
UnknownBook == [dbsCode |-> Undefined, name |-> Undefined, eng0 |-> Undefined, resolved |-> FALSE]

\* bibleDataParser.getBookInfoByUsfmCode
getBookInfoByUsfmCode(bookId) ==
    CASE bookId = <<"G", "E", "N">> ->
            [dbsCode |-> <<"G", "N">>, name |-> <<"G", "e", "n">>,
             eng0 |-> <<"G", "e", "n", "e", "s", "i", "s">>, resolved |-> TRUE]
      [] bookId = <<"P", "S", "A">> ->
            [dbsCode |-> <<"P", "S">>, name |-> <<"P", "s">>,
             eng0 |-> <<"P", "s", "a", "l", "m", "s">>, resolved |-> TRUE]
      [] bookId = <<"J", "O", "B">> ->
            [dbsCode |-> <<"J", "B">>, name |-> <<"J", "o", "b">>,
             eng0 |-> <<"J", "o", "b">>, resolved |-> TRUE]
      [] OTHER -> UnknownBook

\* bibleFormatter.formatChapterCode: the book code followed by the chapter number
formatChapterCode(dbsCode, number) == toStr(dbsCode) \o numberToString(number)

\* bibleFormatter.formatVerseCode: the chapter code, a colon, the verse number
formatVerseCode(dbsCode, chapterNumber, verseNumber) ==
    toStr(dbsCode) \o numberToString(chapterNumber) \o <<":">> \o verseNumber

(***************************************************************************)
(* Fragments of html. k names the template, a its attribute (a class, an   *)
(* id, a note number), s its text.                                         *)
(***************************************************************************)
Frag(k, a, s) == [k |-> k, a |-> a, s |-> s]
\* a piece of text concatenated to the html: the empty string adds nothing
Text(t) == IF t = <<>> THEN <<>> ELSE <<Frag("text", <<>>, t)>>
\* bibleFormatter.openVerse(id, number), number null for an unnumbered segment
openVerse(id, number) == <<Frag("openVerse", id, number)>>
\* bibleFormatter.closeVerse()
closeVerse == <<Frag("closeVerse", <<>>, <<>>)>>
\* bibleFormatter.openChapter(info, chapter): reads the chapter's id and navigation
openChapter(chapter) ==
    <<Frag("openChapter", chapter.id,
           toStr(chapter.previd) \o <<"|">> \o toStr(chapter.nextid))>>
\* bibleFormatter.closeChapter()
closeChapterHtml == <<Frag("closeChapter", <<>>, <<>>)>>

(***************************************************************************)
(* The keys of the switch of generate().                                   *)
(***************************************************************************)
HeadingKeys == {"is", "is1", "ip", "ili", "ili1", "ili2", "mt", "mt1", "mt2", "mt3",
                "ms", "d", "sp", "sr", "s1", "s2", "r"}
ParagraphKeys == {"cp", "m", "mi", "nb", "p", "pi", "q", "q1", "q2", "q3"}
ListItemKeys == {"li", "li1", "li2", "li3"}
NoteOpenKeys == {"x", "f"}
NoteCloseKeys == {"x*", "f*"}
SpanOpenKeys == {"wj", "qs", "nd"}
SpanCloseKeys == {"wj*", "qs*", "nd*"}
\* every key that has a case of its own
KnownKeys ==
    {"b", "c", "h", "ide", "id", "toc1", "toc2", "toc3", "v", "fqa", "ft"}
        \cup HeadingKeys \cup ParagraphKeys \cup ListItemKeys \cup NoteOpenKeys
        \cup NoteCloseKeys \cup SpanOpenKeys \cup SpanCloseKeys
\* the class of the span a span key opens
spanClass(key) ==
    CASE key = "wj" -> <<"wj woj">> [] key = "qs" -> <<"qs">> [] OTHER -> <<"nog">>

(***************************************************************************)
(* The state of the program.                                               *)
(***************************************************************************)
VARIABLES
    \* the closure variables of uwGenerateUsfm (lines 96-131)
    textBlockOpen, verseBlockOpen, footnoteBlockOpen, listItemBlockOpen,
    unparsedTags,
    \* bibleData: chapterData, and indexData as the calls verseIndexer received
    bibleData,
    \* the info parameter of generate(): the lists written to it at the end
    info,
    \* the locals of generate() (lines 184-202)
    bookCodes, bookNames, bookAbbreviations, chapterCodes,
    \* the locals of the callback run for each file (lines 221-239)
    currentBook, currentChapter, currentVerse, noteNumber,
    \* the createIndex parameter of generate()
    createIndex,
    \* where generate() is: "idle" before the call, "files" between two files,
    \* "lines" inside a .usfm file, "done" after the return, "aborted" after a throw
    pc,
    \* how many files without the .usfm extension the run has met
    other,
    \* the lines read so far, one sequence for each .usfm file: tag records, and
    \* under the key "(line)" the lines without a tag
    trace,
    \* what the last step did, in the order it did it
    ops,
    \* how many times generate() has been called on this instance
    runs,
    \* uw-grab-available-texts.js: uwObject.languageData (line 95)
    languageData,
    \* where the chain of process() is: "idle" before the call, "del", "languages",
    \* "catalog" while the callback of that step is awaited, "bibles" once
    \* downloadBibles has run, "stopped" after a step that ended without its
    \* callback, "crashed" after a throw inside a callback
    gpc,
    \* the list getBibles handed to its callback, empty before
    bibles,
    \* for each bible of the list, whether the callback of mkdirp is awaited
    \* ("pending") or has run ("made")
    dirs,
    \* what the grab module did to the network, the disk and its callbacks, in order
    log

\* the state of uwGenerateUsfm
genVars == <<textBlockOpen, verseBlockOpen, footnoteBlockOpen, listItemBlockOpen,
             unparsedTags, bibleData, info, bookCodes, bookNames, bookAbbreviations,
             chapterCodes, currentBook, currentChapter, currentVerse, noteNumber,
             createIndex, pc, other, trace, ops, runs>>
\* the state of uwGrabAvailableTexts
grabVars == <<languageData, gpc, bibles, dirs, log>>

vars == <<genVars, grabVars>>

\* what a tag dispatch reads and writes, as one record
Cur ==
    [textBlockOpen |-> textBlockOpen, verseBlockOpen |-> verseBlockOpen,
     footnoteBlockOpen |-> footnoteBlockOpen, listItemBlockOpen |-> listItemBlockOpen,
     unparsedTags |-> unparsedTags, bibleData |-> bibleData,
     chapterCodes |-> chapterCodes, currentBook |-> currentBook,
     currentChapter |-> currentChapter, currentVerse |-> currentVerse,
     noteNumber |-> noteNumber, ops |-> <<>>, threw |-> FALSE]

\* the record s written back to the variables
Install(s) ==
    /\ textBlockOpen' = s.textBlockOpen
    /\ verseBlockOpen' = s.verseBlockOpen
    /\ footnoteBlockOpen' = s.footnoteBlockOpen
    /\ listItemBlockOpen' = s.listItemBlockOpen
    /\ unparsedTags' = s.unparsedTags
    /\ bibleData' = s.bibleData
    /\ chapterCodes' = s.chapterCodes
    /\ currentBook' = s.currentBook
    /\ currentChapter' = s.currentChapter
    /\ currentVerse' = s.currentVerse
    /\ noteNumber' = s.noteNumber
    /\ ops' = s.ops

\* currentChapter.html += fragments
Emit(s, frags) == [s EXCEPT !.currentChapter.html = @ \o frags]
\* currentChapter.html += close...Block(): c is the block function's result
AddHtml(c) == [c.st EXCEPT !.currentChapter.html = @ \o c.ret]
Log(s, e) == [s EXCEPT !.ops = Append(@, e)]

(***************************************************************************)
(* The private functions of uwGenerateUsfm.                                *)
(***************************************************************************)
closeTextBlock(s) ==
    IF s.textBlockOpen
        THEN [st |-> Log([s EXCEPT !.textBlockOpen = FALSE], "closeText"),
              ret |-> <<Frag("closeText", <<>>, <<>>)>>]
        ELSE [st |-> s, ret |-> <<>>]

closeVerseBlock(s) ==
    IF s.verseBlockOpen
        THEN [st |-> Log([s EXCEPT !.verseBlockOpen = FALSE], "closeVerse"),
              ret |-> closeVerse]
        ELSE [st |-> s, ret |-> <<>>]

\* a mutant: the closing fragment is returned whether a footnote is open or not
M_closeFootnoteBlock(s) ==
    [st |-> Log([s EXCEPT !.footnoteBlockOpen = FALSE], "closeFootnote"),
     ret |-> <<Frag("closeNote", <<>>, <<>>)>>]

closeFootnoteBlock(s) ==
    IF s.footnoteBlockOpen
        THEN [st |-> Log([s EXCEPT !.footnoteBlockOpen = FALSE], "closeFootnote"),
              ret |-> <<Frag("closeNote", <<>>, <<>>)>>]
        ELSE [st |-> s, ret |-> <<>>]

closeListItemBlock(s) ==
    IF s.listItemBlockOpen
        THEN [st |-> Log([s EXCEPT !.listItemBlockOpen = FALSE], "closeListItem"),
              ret |-> <<Frag("closeListItem", <<>>, <<>>)>>]
        ELSE [st |-> s, ret |-> <<>>]

\* a mutant: the chapter is added to the html of the record pushed last
M_closeChapter(s) ==
    LET cd == s.bibleData.chapterData
    IN  IF cd = <<>>
            THEN Log([s EXCEPT !.bibleData.chapterData =
                        <<[id |-> s.currentChapter.id, title |-> s.currentChapter.title,
                           html |-> s.currentChapter.html,
                           previd |-> Undefined, nextid |-> Undefined]>>],
                     "closeChapter")
            ELSE Log([s EXCEPT !.bibleData.chapterData[Len(cd)].html =
                        @ \o s.currentChapter.html],
                     "closeChapter")

\* closeChapter(currentChapter): bibleData always has the property chapterData
closeChapter(s) ==
    Log([s EXCEPT !.bibleData.chapterData =
            Append(@, [id |-> s.currentChapter.id, title |-> s.currentChapter.title,
                       html |-> s.currentChapter.html,
                       previd |-> Undefined, nextid |-> Undefined])],
        "closeChapter")

stripPlural(text) ==
    IF substringFrom(text, Len(text) - 1) = <<"s">>
        THEN substring(text, 0, Len(text) - 1)
        ELSE text

stripCaller(text) == substringFrom(text, indexOf(text, " ") + 1)

abbreviate(text) == substring(removeWhitespace(text), 0, 3)

getChapterHeader(chapter) ==
    LET psalmChapter == <<"P", "S">> \o numberToString(chapter.number)
        content == (IF chapter.id = psalmChapter
                        THEN stripPlural(chapter.header) \o <<" ">>
                        ELSE <<>>) \o numberToString(chapter.number)
    IN  <<Frag("c", <<>>, content)>>

\* a mutant: the verse is indexed whether it has text or not
M_indexPending(s, ci) ==
    IF ci /\ s.currentVerse.id # Null
        THEN Log([s EXCEPT !.bibleData.indexData =
                    Append(@, [id |-> s.currentVerse.id, text |-> s.currentVerse.text])],
                 "indexVerse")
        ELSE s

\* verseIndexer.indexVerse(currentVerse.id, currentVerse.text, indexData, info.lang),
\* under the condition of lines 366 and 477
indexPending(s, ci) ==
    IF ci /\ s.currentVerse.text # <<>> /\ s.currentVerse.id # Null
        THEN Log([s EXCEPT !.bibleData.indexData =
                    Append(@, [id |-> s.currentVerse.id, text |-> s.currentVerse.text])],
                 "indexVerse")
        ELSE s

\* a mutant: the test for the last record is off by one
M_addChapterNavigation(chapterData) ==
    LET il == Len(chapterData)
    IN  [i \in 1..il |->
            [chapterData[i] EXCEPT
                !.previd = IF i = 1 THEN Null ELSE chapterData[i - 1].id,
                !.nextid = IF i >= il - 1 THEN Null ELSE chapterData[i + 1].id]]

addChapterNavigation(chapterData) ==
    LET il == Len(chapterData)
    IN  [i \in 1..il |->
            [chapterData[i] EXCEPT
                !.previd = IF i = 1 THEN Null ELSE chapterData[i - 1].id,
                !.nextid = IF i = il THEN Null ELSE chapterData[i + 1].id]]

\* a mutant: the wrapper reads the records as they were before the navigation
M_wrapChapterHtmlElements(chapterData) ==
    [i \in 1..Len(chapterData) |->
        [chapterData[i] EXCEPT
            !.html = openChapter([chapterData[i] EXCEPT !.previd = Undefined,
                                                        !.nextid = Undefined])
                        \o @ \o closeChapterHtml]]

wrapChapterHtmlElements(chapterData) ==
    [i \in 1..Len(chapterData) |->
        [chapterData[i] EXCEPT
            !.html = openChapter(chapterData[i]) \o @ \o closeChapterHtml]]

(***************************************************************************)
(* The cases of the switch (lines 262-468). Each takes the state s and the *)
(* tag record u = [key, number, text] and gives the state after the case.  *)
(***************************************************************************)
\* a mutant: the text block is closed before the list item
M_closeVerseListItemText(s) ==
    AddHtml(closeListItemBlock(AddHtml(closeTextBlock(AddHtml(closeVerseBlock(s))))))

\* the three closes that open the cases 'b', 'c' and the headings
closeVerseListItemText(s) ==
    AddHtml(closeTextBlock(AddHtml(closeListItemBlock(AddHtml(closeVerseBlock(s))))))

caseB(s, u) ==
    Log(Emit(closeVerseListItemText(s), <<Frag("b", <<>>, <<>>)>>), "emit")

\* a mutant: the chapter before is flushed from chapter 1 on
M_caseC(s, u) ==
    LET number == parseInt(u.number)
        s1 == [closeVerseListItemText(s) EXCEPT !.currentChapter.number = number]
        s2 == IF number # NaN /\ number >= 1
                THEN [closeChapter(s1) EXCEPT !.currentChapter.title = <<>>,
                                              !.currentChapter.id = <<>>,
                                              !.currentChapter.html = <<>>]
                ELSE s1
        s3 == [s2 EXCEPT
                !.currentChapter.title =
                    toStr(s2.currentBook.parsedInfo.name) \o <<" ">> \o numberToString(number),
                !.currentChapter.id =
                    formatChapterCode(s2.currentBook.parsedInfo.dbsCode, number)]
        s4 == [s3 EXCEPT !.chapterCodes = Append(@, s3.currentChapter.id)]
    IN  Log(Emit(s4, getChapterHeader(s4.currentChapter)), "chapterHeader")

caseC(s, u) ==
    LET number == parseInt(u.number)
        s1 == [closeVerseListItemText(s) EXCEPT !.currentChapter.number = number]
        s2 == IF number # NaN /\ number > 1
                THEN [closeChapter(s1) EXCEPT !.currentChapter.title = <<>>,
                                              !.currentChapter.id = <<>>,
                                              !.currentChapter.html = <<>>]
                ELSE s1
        s3 == [s2 EXCEPT
                !.currentChapter.title =
                    toStr(s2.currentBook.parsedInfo.name) \o <<" ">> \o numberToString(number),
                !.currentChapter.id =
                    formatChapterCode(s2.currentBook.parsedInfo.dbsCode, number)]
        s4 == [s3 EXCEPT !.chapterCodes = Append(@, s3.currentChapter.id)]
    IN  Log(Emit(s4, getChapterHeader(s4.currentChapter)), "chapterHeader")

caseH(s, u) == [s EXCEPT !.currentChapter.header = trim(u.text)]

caseIde(s, u) == s

\* currentBook.parsedInfo.names of a book the table does not know throws
caseId(s, u) ==
    LET bookId == toUpperCase(trim(splitFirst(u.text)))
        parsedInfo == getBookInfoByUsfmCode(bookId)
    IN  IF parsedInfo.resolved
            THEN [s EXCEPT !.currentBook.parsedInfo = parsedInfo,
                           !.currentBook.name = parsedInfo.eng0,
                           !.currentBook.abbreviation = abbreviate(parsedInfo.eng0)]
            ELSE [s EXCEPT !.currentBook.parsedInfo = parsedInfo, !.threw = TRUE]

\* a mutant: the name is overwritten whether the text is empty or not
M_caseToc1(s, u) == [s EXCEPT !.currentBook.name = trim(u.text)]

caseToc1(s, u) ==
    IF trim(u.text) # <<>> THEN [s EXCEPT !.currentBook.name = trim(u.text)] ELSE s

caseToc2(s, u) ==
    IF trim(u.text) # <<>> THEN [s EXCEPT !.currentBook.name = trim(u.text)] ELSE s

caseToc3(s, u) ==
    IF trim(u.text) # <<>> THEN [s EXCEPT !.currentBook.abbreviation = trim(u.text)] ELSE s

caseHeading(s, u) ==
    Log(Emit(closeVerseListItemText(s), <<Frag("div", <<u.key>>, u.text)>>), "emit")

\* a mutant: the verse is indexed after the new verse has overwritten it
M_caseV(s, u, ci) ==
    LET s1 == AddHtml(closeVerseBlock(s))
        s2 == [s1 EXCEPT !.currentVerse.text = u.text, !.currentVerse.number = u.number]
        s3 == indexPending([s2 EXCEPT !.currentVerse.id =
                    formatVerseCode(s2.currentBook.parsedInfo.dbsCode,
                                    s2.currentChapter.number, s2.currentVerse.number)], ci)
        s4 == Emit(s3, openVerse(s3.currentVerse.id, s3.currentVerse.number)
                            \o Text(s3.currentVerse.text))
    IN  Log([s4 EXCEPT !.verseBlockOpen = TRUE], "openVerse")

caseV(s, u, ci) ==
    LET s1 == indexPending(AddHtml(closeVerseBlock(s)), ci)
        s2 == [s1 EXCEPT !.currentVerse.text = u.text, !.currentVerse.number = u.number]
        s3 == [s2 EXCEPT !.currentVerse.id =
                    formatVerseCode(s2.currentBook.parsedInfo.dbsCode,
                                    s2.currentChapter.number, s2.currentVerse.number)]
        s4 == Emit(s3, openVerse(s3.currentVerse.id, s3.currentVerse.number)
                            \o Text(s3.currentVerse.text))
    IN  Log([s4 EXCEPT !.verseBlockOpen = TRUE], "openVerse")

\* a mutant: the verse segment of the text is left open
M_caseParagraph(s, u) ==
    LET s1 == AddHtml(closeTextBlock(AddHtml(closeVerseBlock(s))))
        s2 == Log(Emit(s1, <<Frag("openText", <<u.key>>, <<>>)>>), "openText")
        s3 == IF u.text # <<>>
                THEN [Log(Emit(s2, openVerse(s2.currentVerse.id, Null) \o Text(u.text)),
                          "segment") EXCEPT !.verseBlockOpen = TRUE]
                ELSE s2
    IN  [s3 EXCEPT !.textBlockOpen = TRUE]

caseParagraph(s, u) ==
    LET s1 == AddHtml(closeTextBlock(AddHtml(closeVerseBlock(s))))
        s2 == Log(Emit(s1, <<Frag("openText", <<u.key>>, <<>>)>>), "openText")
        s3 == IF u.text # <<>>
                THEN Log(Emit(s2, openVerse(s2.currentVerse.id, Null) \o Text(u.text)
                                     \o closeVerse), "segment")
                ELSE s2
    IN  [s3 EXCEPT !.textBlockOpen = TRUE]

\* a mutant: the list item closes the text block too, as a heading does
M_caseListItem(s, u) ==
    LET s1 == closeVerseListItemText(s)
        s2 == Emit(s1, <<Frag("openListItem", <<u.key>>, <<>>)>> \o Text(u.text))
    IN  Log([s2 EXCEPT !.listItemBlockOpen = TRUE], "openListItem")

caseListItem(s, u) ==
    LET s1 == AddHtml(closeListItemBlock(AddHtml(closeVerseBlock(s))))
        s2 == Emit(s1, <<Frag("openListItem", <<u.key>>, <<>>)>> \o Text(u.text))
    IN  Log([s2 EXCEPT !.listItemBlockOpen = TRUE], "openListItem")

\* a mutant: the counter is left as it is while a footnote is open
M_caseNoteOpen(s, u) ==
    LET s1 == Emit(s, <<Frag("openNote", numberToString(s.noteNumber), <<>>)>>
                        \o Text(stripCaller(u.text)))
    IN  Log([s1 EXCEPT !.noteNumber = IF s.footnoteBlockOpen THEN @ ELSE @ + 1,
                       !.footnoteBlockOpen = TRUE], "openNote")

caseNoteOpen(s, u) ==
    LET s1 == Emit(s, <<Frag("openNote", numberToString(s.noteNumber), <<>>)>>
                        \o Text(stripCaller(u.text)))
    IN  Log([s1 EXCEPT !.noteNumber = @ + 1, !.footnoteBlockOpen = TRUE], "openNote")

caseFqa(s, u) == Log(Emit(s, <<Frag("em", <<>>, u.text)>>), "emit")

caseFt(s, u) == Log(Emit(s, Text(u.text)), "emit")

caseNoteClose(s, u) == AddHtml(closeFootnoteBlock(s))

caseSpanOpen(s, u) ==
    Log(Emit(s, <<Frag("openSpan", spanClass(u.key), <<>>)>> \o Text(u.text)), "emit")

\* a mutant: a span close is dropped when no span is open
M_caseSpanClose(s, u) ==
    IF Cardinality({i \in 1..Len(s.currentChapter.html) :
                        s.currentChapter.html[i].k = "openSpan"})
         > Cardinality({i \in 1..Len(s.currentChapter.html) :
                            s.currentChapter.html[i].k = "closeSpan"})
        THEN Log(Emit(s, <<Frag("closeSpan", <<>>, <<>>)>>), "emit")
        ELSE s

caseSpanClose(s, u) == Log(Emit(s, <<Frag("closeSpan", <<>>, <<>>)>>), "emit")

\* a mutant: the key is pushed whether or not the registry holds it
M_caseDefault(s, u) ==
    IF u.key # "" THEN [s EXCEPT !.unparsedTags = Append(@, u.key)] ELSE s

\* default (lines 463-467)
caseDefault(s, u) ==
    IF u.key # "" /\ \A i \in 1..Len(s.unparsedTags) : s.unparsedTags[i] # u.key
        THEN [s EXCEPT !.unparsedTags = Append(@, u.key)]
        ELSE s

\* a mutant: the text block is closed before the list item
M_endOfFile(s, ci) ==
    LET s1 == AddHtml(closeFootnoteBlock(s))
        s2 == indexPending(AddHtml(closeVerseBlock(s1)), ci)
        s3 == AddHtml(closeListItemBlock(AddHtml(closeTextBlock(s2))))
    IN  [closeChapter(s3) EXCEPT !.currentChapter.title = <<>>,
                                 !.currentChapter.id = <<>>,
                                 !.currentChapter.html = <<>>]

\* the clean up after the last line of a file (lines 475-488), without the
\* pushes to the three lists of the run
endOfFile(s, ci) ==
    LET s1 == AddHtml(closeFootnoteBlock(s))
        s2 == indexPending(AddHtml(closeVerseBlock(s1)), ci)
        s3 == AddHtml(closeTextBlock(AddHtml(closeListItemBlock(s2))))
    IN  [closeChapter(s3) EXCEPT !.currentChapter.title = <<>>,
                                 !.currentChapter.id = <<>>,
                                 !.currentChapter.html = <<>>]

(***************************************************************************)
(* The inputs: tag records as usfmParser.parseLine gives them.             *)
(***************************************************************************)
U(key, number, text) == [key |-> key, number |-> number, text |-> text]

InTheBeginning ==
    <<"I", "n", " ", "t", "h", "e", " ", "b", "e", "g", "i", "n", "n", "i", "n", "g">>
NowTheEarth == <<"N", "o", "w", " ", "t", "h", "e", " ", "e", "a", "r", "t", "h">>

\* one or more records of every case of the switch
Records ==
    {U("b", <<>>, <<>>),
     U("c", <<"1">>, <<>>), U("c", <<"2">>, <<>>), U("c", <<>>, <<>>),
     U("h", <<>>, <<"O", "d", "e", "s">>),
     U("ide", <<>>, <<"U", "T", "F">>),
     U("id", <<>>, <<"g", "e", "n", " ", "x">>), U("id", <<>>, <<"P", "S", "A">>),
     U("id", <<>>, <<"x", "x">>),
     U("toc1", <<>>, <<"T", " ">>), U("toc1", <<>>, <<" ">>),
     U("toc2", <<>>, <<"U">>),
     U("toc3", <<>>, <<"V">>),
     U("s1", <<>>, <<"t">>),
     U("v", <<"1">>, <<"a">>), U("v", <<"2">>, <<>>),
     U("p", <<>>, <<>>), U("q", <<>>, <<"b">>),
     U("li", <<>>, <<"c">>),
     U("f", <<>>, <<"+", " ", "n">>),
     U("fqa", <<>>, <<"d">>),
     U("ft", <<>>, <<"e">>),
     U("f*", <<>>, <<>>),
     U("wj", <<>>, <<"w">>),
     U("wj*", <<>>, <<>>),
     U("zz", <<>>, <<>>), U("", <<>>, <<>>)}

\* lines that hold text and no tag
Lines == {<<"l">>}

(***************************************************************************)
(* The steps of generate().                                                *)
(***************************************************************************)
Init ==
    /\ textBlockOpen = FALSE
    /\ verseBlockOpen = FALSE
    /\ footnoteBlockOpen = FALSE
    /\ listItemBlockOpen = FALSE
    /\ unparsedTags = <<>>
    /\ bibleData = [chapterData |-> <<>>, indexData |-> <<>>]
    /\ info = [divisions |-> Undefined, divisionNames |-> Undefined,
               divisionAbbreviations |-> Undefined, sections |-> Undefined]
    /\ bookCodes = <<>>
    /\ bookNames = <<>>
    /\ bookAbbreviations = <<>>
    /\ chapterCodes = <<>>
    /\ currentBook = [name |-> <<>>, abbreviation |-> <<>>, parsedInfo |-> EmptyObject]
    /\ currentChapter = [header |-> <<>>, html |-> <<>>, id |-> <<>>, number |-> 0,
                         title |-> <<>>]
    /\ currentVerse = [id |-> <<>>, number |-> <<"0">>, text |-> <<>>]
    /\ noteNumber = 1
    /\ createIndex = FALSE
    /\ pc = "idle"
    /\ other = 0
    /\ trace = <<>>
    /\ ops = <<>>
    /\ runs = 0
    /\ languageData = <<>>
    /\ gpc = "idle"
    /\ bibles = <<>>
    /\ dirs = <<>>
    /\ log = <<>>

\* the number of lines read so far
RECURSIVE TagCountOf(_)
TagCountOf(tr) == IF tr = <<>> THEN 0 ELSE Len(Head(tr)) + TagCountOf(Tail(tr))
TagCount == TagCountOf(trace)

\* the call generate(_inputBasePath, info, createIndex, ...) up to the loop (166-206)
\* CI is the set the createIndex argument is drawn from, n the number of calls
\* made on the instance: a call follows the return or the throw of the call before
Generate(CI, n) ==
    /\ pc \in {"idle", "done", "aborted"}
    /\ runs < n
    /\ runs' = runs + 1
    /\ \E ci \in CI : createIndex' = ci
    /\ bibleData' = [chapterData |-> <<>>, indexData |-> <<>>]
    /\ bookCodes' = <<>>
    /\ bookNames' = <<>>
    /\ bookAbbreviations' = <<>>
    /\ chapterCodes' = <<>>
    /\ pc' = "files"
    /\ other' = 0
    /\ trace' = <<>>
    /\ ops' = <<"generate">>
    /\ UNCHANGED <<textBlockOpen, verseBlockOpen, footnoteBlockOpen, listItemBlockOpen,
                   unparsedTags, info, currentBook, currentChapter, currentVerse,
                   noteNumber>>
    /\ UNCHANGED grabVars

\* a mutant: a file that is skipped leaves an entry in the list of book codes
M_SkipFile ==
    /\ pc = "files"
    /\ other < MaxOther
    /\ other' = other + 1
    /\ ops' = <<"skip">>
    /\ bookCodes' = Append(bookCodes, Undefined)
    /\ UNCHANGED <<textBlockOpen, verseBlockOpen, footnoteBlockOpen, listItemBlockOpen,
                   unparsedTags, bibleData, info, bookNames,
                   bookAbbreviations, chapterCodes, currentBook, currentChapter,
                   currentVerse, noteNumber, createIndex, pc, trace, runs>>
    /\ UNCHANGED grabVars

\* a file whose name does not hold '.usfm' (lines 212-214)
SkipFile ==
    /\ pc = "files"
    /\ other < MaxOther
    /\ other' = other + 1
    /\ ops' = <<"skip">>
    /\ UNCHANGED <<textBlockOpen, verseBlockOpen, footnoteBlockOpen, listItemBlockOpen,
                   unparsedTags, bibleData, info, bookCodes, bookNames,
                   bookAbbreviations, chapterCodes, currentBook, currentChapter,
                   currentVerse, noteNumber, createIndex, pc, trace, runs>>
    /\ UNCHANGED grabVars

\* a .usfm file is opened: the locals of lines 221-239; n bounds the files of a run
BeginFile(n) ==
    /\ pc = "files"
    /\ Len(trace) < n
    /\ currentBook' = [name |-> <<>>, abbreviation |-> <<>>, parsedInfo |-> EmptyObject]
    /\ currentChapter' = [header |-> <<>>, html |-> <<>>, id |-> <<>>, number |-> 0,
                          title |-> <<>>]
    /\ currentVerse' = [id |-> <<>>, number |-> <<"0">>, text |-> <<>>]
    /\ noteNumber' = 1
    /\ pc' = "lines"
    /\ trace' = Append(trace, <<>>)
    /\ ops' = <<"file">>
    /\ UNCHANGED <<textBlockOpen, verseBlockOpen, footnoteBlockOpen, listItemBlockOpen,
                   unparsedTags, bibleData, info, bookCodes, bookNames,
                   bookAbbreviations, chapterCodes, createIndex, other, runs>>
    /\ UNCHANGED grabVars

\* a line without a tag that holds text (lines 243-254): L is the set the lines
\* are drawn from, n the number of lines a run reads
Untagged(L, n) ==
    /\ pc = "lines"
    /\ TagCount < n
    /\ \E line \in L :
        /\ removeWhitespace(line) # <<>>
        /\ currentChapter' = [currentChapter EXCEPT !.html = @ \o Text(<<" ">> \o line)]
        /\ trace' = [trace EXCEPT ![Len(trace)] = Append(@, U("(line)", <<>>, line))]
    /\ ops' = <<"line">>
    /\ UNCHANGED <<textBlockOpen, verseBlockOpen, footnoteBlockOpen, listItemBlockOpen,
                   unparsedTags, bibleData, info, bookCodes, bookNames,
                   bookAbbreviations, chapterCodes, currentBook, currentVerse,
                   noteNumber, createIndex, pc, other, runs>>
    /\ UNCHANGED grabVars

\* one tag record u is read and its case leaves the state s
Step(u, s) ==
    /\ Install(s)
    /\ trace' = [trace EXCEPT ![Len(trace)] = Append(@, u)]
    /\ pc' = IF s.threw THEN "aborted" ELSE "lines"
    /\ UNCHANGED <<info, bookCodes, bookNames, bookAbbreviations, createIndex, other,
                   runs>>
    /\ UNCHANGED grabVars

\* R is the set the records are drawn from, n the number of records a run reads
Ready(u, n) == pc = "lines" /\ TagCount < n

TagB(R, n) == \E u \in R : Ready(u, n) /\ u.key = "b" /\ Step(u, caseB(Cur, u))
TagC(R, n) == \E u \in R : Ready(u, n) /\ u.key = "c" /\ Step(u, caseC(Cur, u))
TagH(R, n) == \E u \in R : Ready(u, n) /\ u.key = "h" /\ Step(u, caseH(Cur, u))
TagIde(R, n) == \E u \in R : Ready(u, n) /\ u.key = "ide" /\ Step(u, caseIde(Cur, u))
TagId(R, n) == \E u \in R : Ready(u, n) /\ u.key = "id" /\ Step(u, caseId(Cur, u))
TagToc1(R, n) == \E u \in R : Ready(u, n) /\ u.key = "toc1" /\ Step(u, caseToc1(Cur, u))
TagToc2(R, n) == \E u \in R : Ready(u, n) /\ u.key = "toc2" /\ Step(u, caseToc2(Cur, u))
TagToc3(R, n) == \E u \in R : Ready(u, n) /\ u.key = "toc3" /\ Step(u, caseToc3(Cur, u))
TagHeading(R, n) ==
    \E u \in R : Ready(u, n) /\ u.key \in HeadingKeys /\ Step(u, caseHeading(Cur, u))
TagV(R, n) ==
    \E u \in R : Ready(u, n) /\ u.key = "v" /\ Step(u, caseV(Cur, u, createIndex))
TagParagraph(R, n) ==
    \E u \in R : Ready(u, n) /\ u.key \in ParagraphKeys /\ Step(u, caseParagraph(Cur, u))
TagListItem(R, n) ==
    \E u \in R : Ready(u, n) /\ u.key \in ListItemKeys /\ Step(u, caseListItem(Cur, u))
TagNoteOpen(R, n) ==
    \E u \in R : Ready(u, n) /\ u.key \in NoteOpenKeys /\ Step(u, caseNoteOpen(Cur, u))
TagFqa(R, n) == \E u \in R : Ready(u, n) /\ u.key = "fqa" /\ Step(u, caseFqa(Cur, u))
TagFt(R, n) == \E u \in R : Ready(u, n) /\ u.key = "ft" /\ Step(u, caseFt(Cur, u))
TagNoteClose(R, n) ==
    \E u \in R : Ready(u, n) /\ u.key \in NoteCloseKeys /\ Step(u, caseNoteClose(Cur, u))
TagSpanOpen(R, n) ==
    \E u \in R : Ready(u, n) /\ u.key \in SpanOpenKeys /\ Step(u, caseSpanOpen(Cur, u))
TagSpanClose(R, n) ==
    \E u \in R : Ready(u, n) /\ u.key \in SpanCloseKeys /\ Step(u, caseSpanClose(Cur, u))
TagDefault(R, n) ==
    \E u \in R : Ready(u, n) /\ u.key \notin KnownKeys /\ Step(u, caseDefault(Cur, u))

\* the end of a file: the clean up and the three pushes (lines 475-492)
EndFile ==
    /\ pc = "lines"
    /\ LET s == endOfFile(Cur, createIndex)
       IN  /\ Install([s EXCEPT !.ops = Append(@, "pushBook")])
           /\ bookCodes' = Append(bookCodes, s.currentBook.parsedInfo.dbsCode)
           /\ bookNames' = Append(bookNames, s.currentBook.name)
           /\ bookAbbreviations' = Append(bookAbbreviations, s.currentBook.abbreviation)
    /\ pc' = "files"
    /\ UNCHANGED <<info, createIndex, other, trace, runs>>
    /\ UNCHANGED grabVars

\* after the last file: info, the navigation, the wrapping, the return (497-514)
Finish ==
    /\ pc = "files"
    /\ info' = [divisions |-> bookCodes, divisionNames |-> bookNames,
                divisionAbbreviations |-> bookAbbreviations, sections |-> chapterCodes]
    /\ bibleData' = [bibleData EXCEPT
            !.chapterData = wrapChapterHtmlElements(addChapterNavigation(@))]
    /\ pc' = "done"
    /\ ops' = <<"info", "addChapterNavigation", "wrapChapterHtmlElements">>
    /\ UNCHANGED <<textBlockOpen, verseBlockOpen, footnoteBlockOpen, listItemBlockOpen,
                   unparsedTags, bookCodes, bookNames, bookAbbreviations, chapterCodes,
                   currentBook, currentChapter, currentVerse, noteNumber, createIndex,
                   other, trace, runs>>
    /\ UNCHANGED grabVars

Next ==
    \/ Generate(BOOLEAN, 1) \/ SkipFile \/ BeginFile(MaxUnits) \/ Untagged(Lines, MaxTags)
    \/ EndFile \/ Finish
    \/ TagB(Records, MaxTags) \/ TagC(Records, MaxTags) \/ TagH(Records, MaxTags)
    \/ TagIde(Records, MaxTags) \/ TagId(Records, MaxTags)
    \/ TagToc1(Records, MaxTags) \/ TagToc2(Records, MaxTags)
    \/ TagToc3(Records, MaxTags) \/ TagHeading(Records, MaxTags)
    \/ TagV(Records, MaxTags) \/ TagParagraph(Records, MaxTags)
    \/ TagListItem(Records, MaxTags) \/ TagNoteOpen(Records, MaxTags)
    \/ TagFqa(Records, MaxTags) \/ TagFt(Records, MaxTags)
    \/ TagNoteClose(Records, MaxTags) \/ TagSpanOpen(Records, MaxTags)
    \/ TagSpanClose(Records, MaxTags) \/ TagDefault(Records, MaxTags)

Spec == Init /\ [][Next]_vars

(***************************************************************************)
(* Chapters: runs over the records that make, number and flush chapters.   *)
(***************************************************************************)
ChapterRecords ==
    {U("id", <<>>, <<"G", "E", "N">>), U("c", <<"1">>, <<>>), U("c", <<"2">>, <<>>),
     U("f", <<>>, <<"+", " ", "n">>)}

NextChapters ==
    \/ Generate({TRUE}, 1) \/ BeginFile(ChapUnits) \/ EndFile \/ Finish
    \/ TagId(ChapterRecords, ChapTags) \/ TagC(ChapterRecords, ChapTags)
    \/ TagNoteOpen(ChapterRecords, ChapTags)

SpecChapters == Init /\ [][NextChapters]_vars

(***************************************************************************)
(* What the properties below read off a state.                             *)
(***************************************************************************)
chapterData == bibleData.chapterData
\* the records of the lines read so far, files one after the other
RECURSIVE Flatten(_)
Flatten(tr) == IF tr = <<>> THEN <<>> ELSE Head(tr) \o Flatten(Tail(tr))
\* how many elements of the sequence q satisfy P
CountIn(q, P(_)) == Cardinality({i \in 1..Len(q) : P(q[i])})
IsChapterTag(u) == u.key = "c"
IsHeaderFrag(f) == f.k = "c"
\* the html of the records of chapterData, one after the other
RECURSIVE HtmlOf(_)
HtmlOf(cd) == IF cd = <<>> THEN <<>> ELSE Head(cd).html \o HtmlOf(Tail(cd))
\* every fragment emitted so far in the run
AllHtml == HtmlOf(chapterData) \o currentChapter.html
\* how many fragments of template k the html h holds
Frags(h, k) == Cardinality({i \in 1..Len(h) : h[i].k = k})
\* the file being read, or the last one read
CurrentUnit == trace[Len(trace)]
\* the last line read
LastRead == CurrentUnit[Len(CurrentUnit)]
\* the places of the file unit that hold a record with a key of K
Places(unit, K) == {i \in 1..Len(unit) : unit[i].key \in K}

(***************************************************************************)
(* C1: after generate() returns, previd of record i is null for the first  *)
(* record and the id of record i-1 otherwise, nextid is null for the last  *)
(* record and the id of record i+1 otherwise, units and tags being any.    *)
(***************************************************************************)
C1_NavigationLinked ==
    pc = "done" =>
        \A i \in 1..Len(chapterData) :
            /\ chapterData[i].previd =
                  (IF i = 1 THEN Null ELSE chapterData[i - 1].id)
            /\ chapterData[i].nextid =
                  (IF i = Len(chapterData) THEN Null ELSE chapterData[i + 1].id)

\* a returned run of two files with three records or more, the second one
\* between two chapters of different ids
C1_Witness ==
    /\ pc = "done"
    /\ Len(trace) = 2
    /\ Len(chapterData) >= 3
    /\ chapterData[2].previd # chapterData[2].nextid
    /\ chapterData[2].previd # Null
    /\ chapterData[2].nextid # Null

(***************************************************************************)
(* C2: chapterData holds exactly one record for each 'c' record read, in   *)
(* the order they were read, whatever the chapter numbers are and also for *)
(* a file without a 'c' record.                                            *)
(***************************************************************************)
C2_OneRecordPerChapterTag ==
    pc = "done" =>
        /\ Len(chapterData) = CountIn(Flatten(trace), IsChapterTag)
        /\ Len(chapterData) = Len(chapterCodes)
        /\ \A i \in 1..Len(chapterData) : chapterData[i].id = chapterCodes[i]

(***************************************************************************)
(* C3: no record of chapterData holds the header of a later 'c' record:    *)
(* the html of every record holds at most one chapter header.              *)
(***************************************************************************)
C3_OneHeaderPerRecord ==
    \A i \in 1..Len(chapterData) : CountIn(chapterData[i].html, IsHeaderFrag) <= 1

(***************************************************************************)
(* C5: after every tag dispatch, for each of the four kinds of block, the  *)
(* flag is true exactly when one more opening fragment than closing        *)
(* fragments of the kind has been emitted, and false exactly when as many; *)
(* a second footnote open leaves no opening fragment without an owed close.*)
(***************************************************************************)
C5_FlagIffOneOpenFragment ==
    pc = "lines" =>
        /\ Frags(AllHtml, "openText") - Frags(AllHtml, "closeText")
              = (IF textBlockOpen THEN 1 ELSE 0)
        /\ Frags(AllHtml, "openVerse") - Frags(AllHtml, "closeVerse")
              = (IF verseBlockOpen THEN 1 ELSE 0)
        /\ Frags(AllHtml, "openNote") - Frags(AllHtml, "closeNote")
              = (IF footnoteBlockOpen THEN 1 ELSE 0)
        /\ Frags(AllHtml, "openListItem") - Frags(AllHtml, "closeListItem")
              = (IF listItemBlockOpen THEN 1 ELSE 0)

(***************************************************************************)
(* C10: when a file ends with a footnote opened by 'f' or 'x' that no 'f*' *)
(* or 'x*' follows, the clean up emits exactly one footnote close, and the *)
(* opening fragment of the footnote is in the last record of the file      *)
(* exactly once, wherever in the file the footnote was opened.             *)
(***************************************************************************)
\* the number the i-th line of the file unit gives its footnote
NoteNumberAt(unit, i) == Cardinality({j \in Places(unit, NoteOpenKeys) : j <= i})
\* the footnotes of the file unit that are opened and not closed afterwards
OpenNotes(unit) ==
    {i \in Places(unit, NoteOpenKeys) : \A j \in Places(unit, NoteCloseKeys) : j < i}
IsNoteClose(e) == e = "closeFootnote"

C10_OpenFootnoteClosedInLastRecord ==
    (pc = "files" /\ ops # <<>> /\ ops[Len(ops)] = "pushBook") =>
        \A i \in OpenNotes(CurrentUnit) :
            LET last == chapterData[Len(chapterData)].html
                open == Frag("openNote", numberToString(NoteNumberAt(CurrentUnit, i)), <<>>)
            IN  /\ CountIn(ops, IsNoteClose) = 1
                /\ Cardinality({n \in 1..Len(last) : last[n] = open}) = 1
                /\ Frags(last, "closeNote") = 1

(***************************************************************************)
(* Blocks: runs over the records that open and close the four blocks.      *)
(***************************************************************************)
BlockRecords ==
    {U("b", <<>>, <<>>), U("v", <<"1">>, <<"a">>), U("p", <<>>, <<>>),
     U("li", <<>>, <<"c">>), U("f", <<>>, <<"+", " ", "n">>), U("f*", <<>>, <<>>)}

NextBlocks ==
    \/ Generate({TRUE}, 1) \/ BeginFile(BlockUnits) \/ EndFile \/ Finish
    \/ TagB(BlockRecords, BlockTags) \/ TagV(BlockRecords, BlockTags)
    \/ TagParagraph(BlockRecords, BlockTags) \/ TagListItem(BlockRecords, BlockTags)
    \/ TagNoteOpen(BlockRecords, BlockTags) \/ TagNoteClose(BlockRecords, BlockTags)

SpecBlocks == Init /\ [][NextBlocks]_vars

\* the four flags
Flags == <<textBlockOpen, verseBlockOpen, footnoteBlockOpen, listItemBlockOpen>>
\* the step reads a tag record
ReadsTag == pc = "lines" /\ TagCount' = TagCount + 1

(***************************************************************************)
(* C6: closing a block whose flag is false appends no closing fragment,    *)
(* leaves the four flags as they are and raises no error: for each of the  *)
(* four block functions, for a stray 'f*' or 'x*', and for a 'b' with      *)
(* nothing open, which appends its own fragment alone.                     *)
(***************************************************************************)
C6_CloseOfClosedBlockIsNoOp ==
    [][ /\ ~textBlockOpen => closeTextBlock(Cur) = [st |-> Cur, ret |-> <<>>]
        /\ ~verseBlockOpen => closeVerseBlock(Cur) = [st |-> Cur, ret |-> <<>>]
        /\ ~footnoteBlockOpen => closeFootnoteBlock(Cur) = [st |-> Cur, ret |-> <<>>]
        /\ ~listItemBlockOpen => closeListItemBlock(Cur) = [st |-> Cur, ret |-> <<>>]
        /\ (ReadsTag /\ LastRead'.key \in NoteCloseKeys /\ ~footnoteBlockOpen) =>
              /\ currentChapter' = currentChapter
              /\ Flags' = Flags
              /\ pc' = "lines"
        /\ (ReadsTag /\ LastRead'.key = "b"
                /\ ~verseBlockOpen /\ ~listItemBlockOpen /\ ~textBlockOpen) =>
              /\ currentChapter'.html = currentChapter.html \o <<Frag("b", <<>>, <<>>)>>
              /\ Flags' = Flags
              /\ pc' = "lines"
      ]_vars

\* a stray 'f*' has been read after a verse was opened: the verse fragments
\* are all the html holds, and the verse is still open
C6_Witness ==
    /\ pc = "lines"
    /\ Len(CurrentUnit) = 2
    /\ CurrentUnit[1].key = "v"
    /\ LastRead.key = "f*"
    /\ Frags(currentChapter.html, "closeNote") = 0
    /\ Flags = <<FALSE, TRUE, FALSE, FALSE>>

(***************************************************************************)
(* C9: at the end of every file the clean up emits the owed closing        *)
(* fragments in the order footnote, verse, list item, text, indexing the   *)
(* pending verse after the verse close; then it appends exactly one record *)
(* to chapterData, which holds all those fragments; then it appends the    *)
(* book code, name and abbreviation of the file to the lists of the run.   *)
(***************************************************************************)
C9_UnitEndCleanupOrder ==
    [][ (pc = "lines" /\ pc' = "files") =>
          LET closes ==
                  (IF footnoteBlockOpen THEN <<Frag("closeNote", <<>>, <<>>)>> ELSE <<>>)
                  \o (IF verseBlockOpen THEN closeVerse ELSE <<>>)
                  \o (IF listItemBlockOpen THEN <<Frag("closeListItem", <<>>, <<>>)>> ELSE <<>>)
                  \o (IF textBlockOpen THEN <<Frag("closeText", <<>>, <<>>)>> ELSE <<>>)
              order ==
                  (IF footnoteBlockOpen THEN <<"closeFootnote">> ELSE <<>>)
                  \o (IF verseBlockOpen THEN <<"closeVerse">> ELSE <<>>)
                  \o (IF createIndex /\ currentVerse.text # <<>> THEN <<"indexVerse">> ELSE <<>>)
                  \o (IF listItemBlockOpen THEN <<"closeListItem">> ELSE <<>>)
                  \o (IF textBlockOpen THEN <<"closeText">> ELSE <<>>)
                  \o <<"closeChapter", "pushBook">>
          IN  /\ ops' = order
              /\ Len(chapterData') = Len(chapterData) + 1
              /\ SubSeq(chapterData', 1, Len(chapterData)) = chapterData
              /\ chapterData'[Len(chapterData')].html = currentChapter.html \o closes
              /\ chapterData'[Len(chapterData')].id = currentChapter.id
              /\ currentChapter'.html = <<>>
              /\ Flags' = <<FALSE, FALSE, FALSE, FALSE>>
              /\ bookCodes' = Append(bookCodes, currentBook.parsedInfo.dbsCode)
              /\ bookNames' = Append(bookNames, currentBook.name)
              /\ bookAbbreviations' = Append(bookAbbreviations, currentBook.abbreviation)
      ]_vars

\* the end of a second file at which the four blocks were open and a verse pending
C9_Witness ==
    /\ pc = "files"
    /\ Len(trace) = 2
    /\ ops = <<"closeFootnote", "closeVerse", "indexVerse", "closeListItem",
               "closeText", "closeChapter", "pushBook">>
    /\ Len(chapterData) = 2

(***************************************************************************)
(* Index: runs over the records that set the verse, the chapter and the    *)
(* book, with and without the index.                                       *)
(***************************************************************************)
IndexRecords ==
    {U("id", <<>>, <<"G", "E", "N">>), U("c", <<"2">>, <<>>),
     U("v", <<"1">>, <<"a">>), U("v", <<"2">>, <<>>), U("q", <<>>, <<"b">>)}

NextIndex ==
    \/ Generate(BOOLEAN, 1) \/ BeginFile(IndexUnits) \/ EndFile \/ Finish
    \/ TagId(IndexRecords, IndexTags) \/ TagC(IndexRecords, IndexTags)
    \/ TagV(IndexRecords, IndexTags) \/ TagParagraph(IndexRecords, IndexTags)

SpecIndex == Init /\ [][NextIndex]_vars

\* the greatest place of the set P, 0 when it is empty
LastOf(P) == IF P = {} THEN 0 ELSE CHOOSE i \in P : \A j \in P : j <= i
\* the book code and the chapter number in force at the i-th line of the file
\* unit, read off the 'id' and 'c' records before it
BookCodeAt(unit, i) ==
    LET j == LastOf({k \in Places(unit, {"id"}) : k < i})
    IN  IF j = 0 THEN Undefined
        ELSE getBookInfoByUsfmCode(toUpperCase(trim(splitFirst(unit[j].text)))).dbsCode
ChapterNumberAt(unit, i) ==
    LET j == LastOf({k \in Places(unit, {"c"}) : k < i})
    IN  IF j = 0 THEN 0 ELSE parseInt(unit[j].number)
VerseIdAt(unit, i) ==
    formatVerseCode(BookCodeAt(unit, i), ChapterNumberAt(unit, i), unit[i].number)
\* the (id, text) pairs of the 'v' records with text among the first n lines
RECURSIVE VerseCalls(_, _)
VerseCalls(unit, n) ==
    IF n = 0 THEN <<>>
    ELSE VerseCalls(unit, n - 1)
            \o (IF unit[n].key = "v" /\ unit[n].text # <<>>
                    THEN <<[id |-> VerseIdAt(unit, n), text |-> unit[n].text]>>
                    ELSE <<>>)
RECURSIVE CallsOfFiles(_)
CallsOfFiles(tr) ==
    IF tr = <<>> THEN <<>>
    ELSE VerseCalls(Head(tr), Len(Head(tr))) \o CallsOfFiles(Tail(tr))
\* the calls owed so far: every 'v' record with text, but for the last 'v'
\* record of the file that is being read, which is pending
ExpectedCalls ==
    IF trace = <<>> THEN <<>>
    ELSE IF pc \in {"lines", "aborted"}
        THEN CallsOfFiles(SubSeq(trace, 1, Len(trace) - 1))
                \o (IF Places(CurrentUnit, {"v"}) = {} THEN <<>>
                    ELSE VerseCalls(CurrentUnit, LastOf(Places(CurrentUnit, {"v"})) - 1))
        ELSE CallsOfFiles(trace)
HasText(u) == u.key = "v" /\ u.text # <<>>

(***************************************************************************)
(* C7: with createIndex the calls the indexer received are exactly the     *)
(* (id, text) pairs of the 'v' records with text, in the order read over   *)
(* all files, once each: a verse is indexed when the next 'v' record of    *)
(* its file arrives or at the end of its file, and the records read in     *)
(* between leave the id and text of the pending verse as they are.         *)
(* Without createIndex no call is made.                                    *)
(***************************************************************************)
C7_IndexCallsAreVersesWithText ==
    /\ bibleData.indexData = (IF createIndex THEN ExpectedCalls ELSE <<>>)
    /\ (pc = "lines" /\ Places(CurrentUnit, {"v"}) # {}) =>
          LET n == LastOf(Places(CurrentUnit, {"v"}))
          IN  /\ currentVerse.id = VerseIdAt(CurrentUnit, n)
              /\ currentVerse.text = CurrentUnit[n].text

\* a returned run of two files that indexed a verse of each, the first one
\* followed by a paragraph with text before its file ended
C7_Witness ==
    /\ pc = "done"
    /\ createIndex
    /\ Len(trace) = 2
    /\ Len(bibleData.indexData) = 2
    /\ bibleData.indexData[1].id # bibleData.indexData[2].id
    /\ \E i \in 1..(Len(trace[1]) - 1) :
          HasText(trace[1][i]) /\ trace[1][i + 1].key \in ParagraphKeys

(***************************************************************************)
(* C8: no call is ever made for a 'v' record whose text is empty, at the   *)
(* next 'v' record, at a chapter boundary or at the end of the file: no    *)
(* call carries an empty text, and there are no more calls than 'v'        *)
(* records with text.                                                      *)
(***************************************************************************)
C8_NoCallForEmptyVerse ==
    /\ \A i \in 1..Len(bibleData.indexData) : bibleData.indexData[i].text # <<>>
    /\ Len(bibleData.indexData) <= CountIn(Flatten(trace), HasText)

\* a returned run with the index on, in which a verse without text was followed
\* by a chapter and a verse with text, and another was pending when its file ended
C8_Witness ==
    /\ pc = "done"
    /\ createIndex
    /\ Len(trace) = 2
    /\ Len(trace[1]) = 3
    /\ trace[1][1].key = "v" /\ trace[1][1].text = <<>>
    /\ trace[1][2].key = "c"
    /\ HasText(trace[1][3])
    /\ Len(trace[2]) = 1
    /\ trace[2][1].key = "v" /\ trace[2][1].text = <<>>
    /\ Len(bibleData.indexData) = 1

(***************************************************************************)
(* Genesis: the runs over one file made of the six records of the scenario *)
(* of the specification, in any order and number up to its length.         *)
(***************************************************************************)
GenesisInput ==
    <<U("id", <<>>, <<"G", "E", "N">>),
      U("c", <<"1">>, <<>>),
      U("v", <<"1">>, InTheBeginning),
      U("p", <<>>, <<>>),
      U("c", <<"2">>, <<>>),
      U("v", <<"1">>, NowTheEarth)>>
GenesisRecords == {GenesisInput[i] : i \in 1..Len(GenesisInput)}
GenesisTags == Len(GenesisInput)

NextGenesis ==
    \/ Generate({TRUE}, 1) \/ BeginFile(1) \/ EndFile \/ Finish
    \/ TagId(GenesisRecords, GenesisTags) \/ TagC(GenesisRecords, GenesisTags)
    \/ TagV(GenesisRecords, GenesisTags) \/ TagParagraph(GenesisRecords, GenesisTags)

SpecGenesis == Init /\ [][NextGenesis]_vars

\* the book code the table gives GEN
GenesisCode == getBookInfoByUsfmCode(<<"G", "E", "N">>).dbsCode
IsGenesis11(call) ==
    call = [id |-> formatVerseCode(GenesisCode, 1, <<"1">>), text |-> InTheBeginning]

TocRecords ==
    {U("id", <<>>, <<"G", "E", "N">>), U("id", <<>>, <<"P", "S", "A">>),
     U("toc1", <<>>, <<"T", " ">>), U("toc1", <<>>, <<" ">>),
     U("toc2", <<>>, <<" ", "U">>),
     U("toc3", <<>>, <<"V">>), U("toc3", <<>>, <<>>)}

NextToc ==
    \/ Generate({TRUE}, 1) \/ BeginFile(TocUnits) \/ EndFile \/ Finish
    \/ TagId(TocRecords, TocTags) \/ TagToc1(TocRecords, TocTags)
    \/ TagToc2(TocRecords, TocTags) \/ TagToc3(TocRecords, TocTags)

SpecToc == Init /\ [][NextToc]_vars

\* the place of the last 'id' record of the file unit, 0 when it has none
LastId(unit) == LastOf(Places(unit, {"id"}))
\* the places after the last 'id' record that hold a record with a key of K
\* whose text is more than whitespace
Overrides(unit, K) ==
    {i \in Places(unit, K) : i > LastId(unit) /\ trim(unit[i].text) # <<>>}
\* the English name the book table gives the book of the last 'id' record, the
\* empty name of line 222 when the file has no 'id' record
DefaultName(unit) ==
    IF LastId(unit) = 0 THEN <<>>
    ELSE getBookInfoByUsfmCode(toUpperCase(trim(splitFirst(unit[LastId(unit)].text)))).eng0
\* the first three characters of the default name without its whitespace
DefaultAbbreviation(unit) ==
    LET w == removeWhitespace(DefaultName(unit))
    IN  SubSeq(w, 1, IF Len(w) < 3 THEN Len(w) ELSE 3)
NameOf(unit) ==
    IF Overrides(unit, {"toc1", "toc2"}) = {} THEN DefaultName(unit)
    ELSE trim(unit[LastOf(Overrides(unit, {"toc1", "toc2"}))].text)
AbbreviationOf(unit) ==
    IF Overrides(unit, {"toc3"}) = {} THEN DefaultAbbreviation(unit)
    ELSE trim(unit[LastOf(Overrides(unit, {"toc3"}))].text)

(***************************************************************************)
(* C11: the name pushed for a file at its end is the trimmed text of the   *)
(* last 'toc1' or 'toc2' record with text that follows the last 'id'       *)
(* record of the file, or the default name of that 'id' when there is      *)
(* none; the abbreviation is the trimmed text of the last 'toc3' record    *)
(* with text after the last 'id', or the default abbreviation; a 'toc'     *)
(* record whose text is empty or whitespace changes neither.               *)
(***************************************************************************)
C11_LastNonEmptyTocWins ==
    /\ \A i \in 1..Len(bookNames) : bookNames[i] = NameOf(trace[i])
    /\ \A i \in 1..Len(bookAbbreviations) :
          bookAbbreviations[i] = AbbreviationOf(trace[i])
    /\ pc = "lines" =>
          /\ currentBook.name = NameOf(CurrentUnit)
          /\ currentBook.abbreviation = AbbreviationOf(CurrentUnit)

\* the end of a file that read 'toc1' with text, then 'toc2' with text, then a
\* 'toc1' of whitespace: the name pushed is the text of 'toc2'
C11_Witness ==
    /\ pc = "files"
    /\ Len(trace) = 1
    /\ Len(trace[1]) = 3
    /\ trace[1][1] = U("toc1", <<>>, <<"T", " ">>)
    /\ trace[1][2] = U("toc2", <<>>, <<" ", "U">>)
    /\ trace[1][3] = U("toc1", <<>>, <<" ">>)
    /\ bookNames = << <<"U">> >>

(***************************************************************************)
(* C12: a file whose book is never resolved (no 'id' record before its     *)
(* chapter and verse records, or an 'id' the book table does not know)     *)
(* makes the whole run fail: no run returns that read such a file, no      *)
(* record of chapterData carries an id made from an undefined book code,   *)
(* and no undefined book code is pushed to the list of divisions.          *)
(***************************************************************************)
\* the id begins with the text the conversion to string gives undefined
FromUndefined(id) == Len(id) >= 9 /\ SubSeq(id, 1, 9) = toStr(Undefined)

\* the file unit holds a chapter or verse record that no 'id' record precedes
Unidentified(unit) ==
    \E i \in Places(unit, {"c", "v"}) : \A j \in Places(unit, {"id"}) : j > i

C12_UnresolvedUnitFailsRun ==
    /\ \A i \in 1..Len(trace) :
          Unidentified(trace[i]) => (pc = "aborted" /\ i = Len(trace))
    /\ \A i \in 1..Len(chapterData) : ~FromUndefined(chapterData[i].id)
    /\ \A i \in 1..Len(bookCodes) :
          bookCodes[i] = Undefined => ~Unidentified(trace[i])

(***************************************************************************)
(* Runs: two calls of generate() on one instance, over records that open a *)
(* block, stop the run and fill the registry of unparsed tags.             *)
(***************************************************************************)
\* calls of generate(), files and lines of a call under SpecRuns
RunCalls == 2
RunUnits == 1
RunTags == 2

RunRecords ==
    {U("p", <<>>, <<>>), U("id", <<>>, <<"x", "x">>), U("zz", <<>>, <<>>)}

NextRuns ==
    \/ Generate({TRUE}, RunCalls) \/ BeginFile(RunUnits) \/ EndFile \/ Finish
    \/ TagId(RunRecords, RunTags) \/ TagParagraph(RunRecords, RunTags)
    \/ TagDefault(RunRecords, RunTags)

SpecRuns == Init /\ [][NextRuns]_vars

\* the switch of lines 262-468 as one function of the record
Dispatch(s, u, ci) ==
    CASE u.key = "b" -> caseB(s, u)
      [] u.key = "c" -> caseC(s, u)
      [] u.key = "h" -> caseH(s, u)
      [] u.key = "ide" -> caseIde(s, u)
      [] u.key = "id" -> caseId(s, u)
      [] u.key = "toc1" -> caseToc1(s, u)
      [] u.key = "toc2" -> caseToc2(s, u)
      [] u.key = "toc3" -> caseToc3(s, u)
      [] u.key \in HeadingKeys -> caseHeading(s, u)
      [] u.key = "v" -> caseV(s, u, ci)
      [] u.key \in ParagraphKeys -> caseParagraph(s, u)
      [] u.key \in ListItemKeys -> caseListItem(s, u)
      [] u.key \in NoteOpenKeys -> caseNoteOpen(s, u)
      [] u.key = "fqa" -> caseFqa(s, u)
      [] u.key = "ft" -> caseFt(s, u)
      [] u.key \in NoteCloseKeys -> caseNoteClose(s, u)
      [] u.key \in SpanOpenKeys -> caseSpanOpen(s, u)
      [] u.key \in SpanCloseKeys -> caseSpanClose(s, u)
      [] u.key = "(line)" -> Emit(s, Text(<<" ">> \o u.text))
      [] OTHER -> caseDefault(s, u)

\* the instance as its construction leaves it, generate() just called
Fresh ==
    [textBlockOpen |-> FALSE, verseBlockOpen |-> FALSE, footnoteBlockOpen |-> FALSE,
     listItemBlockOpen |-> FALSE, unparsedTags |-> <<>>,
     bibleData |-> [chapterData |-> <<>>, indexData |-> <<>>],
     chapterCodes |-> <<>>,
     currentBook |-> [name |-> <<>>, abbreviation |-> <<>>, parsedInfo |-> EmptyObject],
     currentChapter |-> [header |-> <<>>, html |-> <<>>, id |-> <<>>, number |-> 0,
                         title |-> <<>>],
     currentVerse |-> [id |-> <<>>, number |-> <<"0">>, text |-> <<>>],
     noteNumber |-> 1, ops |-> <<>>, threw |-> FALSE]
\* the locals of lines 221-239 set anew
OpenFile(s) ==
    [s EXCEPT !.currentBook = Fresh.currentBook, !.currentChapter = Fresh.currentChapter,
              !.currentVerse = Fresh.currentVerse, !.noteNumber = 1]
\* the first n records of the file unit read from the state s
RECURSIVE ReadLines(_, _, _, _)
ReadLines(s, unit, n, ci) ==
    IF n = 0 THEN OpenFile(s)
    ELSE Dispatch(ReadLines(s, unit, n - 1, ci), unit[n], ci)
\* the first n files of tr read whole by an instance that never ran before
RECURSIVE ReadFiles(_, _, _)
ReadFiles(tr, n, ci) ==
    IF n = 0 THEN Fresh
    ELSE endOfFile(ReadLines(ReadFiles(tr, n - 1, ci), tr[n], Len(tr[n]), ci), ci)
\* what a first call of generate() returns for the files tr
FirstRun(tr, ci) ==
    LET s == ReadFiles(tr, Len(tr), ci)
    IN  [chapterData |-> wrapChapterHtmlElements(addChapterNavigation(s.bibleData.chapterData)),
         unparsedTags |-> s.unparsedTags]

(***************************************************************************)
(* C13: a call of generate() that follows another call on the instance,    *)
(* returned or stopped by an error inside a file, starts with the four     *)
(* flags false, and returns the chapterData and leaves the registry of     *)
(* unparsed tags that the same files give an instance that never ran.      *)
(***************************************************************************)
C13_RunsAreIsolated ==
    /\ (runs > 1 /\ ops = <<"generate">>) => Flags = <<FALSE, FALSE, FALSE, FALSE>>
    /\ (runs > 1 /\ pc = "done") =>
          /\ chapterData = FirstRun(trace, createIndex).chapterData
          /\ unparsedTags = FirstRun(trace, createIndex).unparsedTags

(***************************************************************************)
(* tools/unfolding-word/uw-grab-available-texts.js: process() and the      *)
(* chain of callbacks it starts. The packages del, request and mkdirp call *)
(* the callback they are given once, later, with an error or a result.     *)
(***************************************************************************)
\* the state of the grab module as one record
Grab == [languageData |-> languageData, gpc |-> gpc, bibles |-> bibles,
         dirs |-> dirs, log |-> log]
InstallGrab(g) ==
    /\ languageData' = g.languageData
    /\ gpc' = g.gpc
    /\ bibles' = g.bibles
    /\ dirs' = g.dirs
    /\ log' = g.log
\* one effect: a request, a callback, a write; id names the bible it is for
Event(e, id) == [e |-> e, id |-> id]
Did(g, e, id) == [g EXCEPT !.log = Append(@, Event(e, id))]
\* the body of a response: the value JSON.parse gives it, or malformed when
\* JSON.parse throws
Body(data) == [malformed |-> FALSE, data |-> data]
Malformed == [malformed |-> TRUE, data |-> <<>>]

\* the null getLanguageData returns, as a language without a code
NoLanguage == [lc |-> Null, ln |-> Null]
\* getLanguageData(lang_code) (lines 305-316)
getLanguageData(ld, lang_code) ==
    LET found == SelectSeq(ld, LAMBDA lang : lang.lc = lang_code)
    IN  IF Len(found) = 1 THEN found[1] ELSE NoLanguage

\* getFiles(tocData) (lines 293-299)
getFiles(tocData) == [i \in 1..Len(tocData) |-> tocData[i].src]

\* the bibles of the first n versions of one language (lines 370-392), without
\* the about text and the checking level
RECURSIVE versionsOf(_, _, _, _)
versionsOf(versions, n, langCode, lang) ==
    IF n = 0 THEN <<>>
    ELSE Append(versionsOf(versions, n - 1, langCode, lang),
                [version_info |->
                    [id |-> <<"u", "w", "_">> \o langCode \o <<"_">> \o versions[n].slug,
                     abbr |-> toUpperCase(versions[n].slug),
                     name |-> versions[n].name,
                     lang |-> lang.lc,
                     langName |-> lang.ln],
                 files |-> getFiles(versions[n].toc)])

\* getBibleVersions(languages) (lines 348-395), over the first n languages
RECURSIVE getBibleVersions(_, _, _)
getBibleVersions(ld, languages, n) ==
    IF n = 0 THEN <<>>
    ELSE LET lc == languages[n].lc
             langCode == IF indexOf(lc, "-") > -1 THEN substring(lc, 0, indexOf(lc, "-"))
                         ELSE lc
             lang == getLanguageData(ld, langCode)
         IN  getBibleVersions(ld, languages, n - 1)
                \o (IF lang = NoLanguage THEN <<>>
                    ELSE versionsOf(languages[n].vers, Len(languages[n].vers), langCode, lang))

\* the loop of getBibles over the first n categories of the catalog (138-142)
RECURSIVE biblesOf(_, _, _)
biblesOf(ld, cat, n) ==
    IF n = 0 THEN <<>>
    ELSE biblesOf(ld, cat, n - 1)
            \o (IF cat[n].slug = "bible"
                    THEN getBibleVersions(ld, cat[n].langs, Len(cat[n].langs))
                    ELSE <<>>)

\* downloadBibles(bibles) (160-165): downloadThisOne asks mkdirp for the directory
\* of each bible in turn (169-171)
RECURSIVE askDirectories(_, _, _)
askDirectories(g, list, n) ==
    IF n = 0 THEN g
    ELSE Did(askDirectories(g, list, n - 1), "mkdirp", list[n].version_info.id)
downloadBibles(g, list) ==
    [askDirectories(g, list, Len(list)) EXCEPT
        !.dirs = [i \in 1..Len(list) |-> "pending"], !.gpc = "bibles"]

\* getBibles(_callback) up to the request (132-134)
getBibles(g) == [Did(g, "request catalog", <<>>) EXCEPT !.gpc = "catalog"]
\* the callback of the request of getBibles (135-146), _callback being the
\* function of lines 213-215
catalogResponse(g, error, statusCode, body) ==
    IF ~error /\ statusCode = 200
        THEN IF body.malformed THEN [g EXCEPT !.gpc = "crashed"]
             ELSE LET list == biblesOf(g.languageData, body.data, Len(body.data))
                  IN  downloadBibles([Did(g, "callback getBibles", <<>>) EXCEPT
                                          !.bibles = list], list)
        ELSE [g EXCEPT !.gpc = "crashed"]

\* downloadLanguageData(_callback) up to the request (101-104)
downloadLanguageData(g) == [Did(g, "request languages", <<>>) EXCEPT !.gpc = "languages"]
\* a mutant: the callback is called before the body is stored
M_languagesResponse(g, error, statusCode, body) ==
    IF error \/ statusCode # 200 THEN [g EXCEPT !.gpc = "stopped"]
    ELSE IF body.malformed THEN [g EXCEPT !.gpc = "crashed"]
    ELSE Did([getBibles(Did(g, "callback downloadLanguageData", <<>>)) EXCEPT
                !.languageData = body.data], "store languageData", <<>>)
\* the callback of the request of downloadLanguageData (105-116), _callback
\* being the function of lines 212-216
languagesResponse(g, error, statusCode, body) ==
    IF error \/ statusCode # 200 THEN [g EXCEPT !.gpc = "stopped"]
    ELSE IF body.malformed THEN [g EXCEPT !.gpc = "crashed"]
    ELSE getBibles(Did(Did([g EXCEPT !.languageData = body.data], "store languageData", <<>>),
                       "callback downloadLanguageData", <<>>))

\* prepareFolder(_callback) up to the call of del (273-275)
prepareFolder(g) == [Did(g, "del", <<>>) EXCEPT !.gpc = "del"]
\* a mutant: the callback is called whether del reports an error or not
M_delDone(g, error) == downloadLanguageData(Did(g, "callback prepareFolder", <<>>))

\* the callback of del (276-280), _callback being the function of lines 211-217
delDone(g, error) ==
    IF error THEN [g EXCEPT !.gpc = "stopped"]
    ELSE downloadLanguageData(Did(g, "callback prepareFolder", <<>>))

\* the callback of mkdirp for the i-th bible (172-195)
mkdirpDone(g, i, err) ==
    IF err THEN [g EXCEPT !.gpc = "crashed"]
    ELSE LET id == g.bibles[i].version_info.id
         IN  [Did(Did(Did(g, "write info.json", id), "write about.html", id),
                  "download", id) EXCEPT !.dirs[i] = "made"]

(***************************************************************************)
(* The inputs of the grab module: what the two requests answer.            *)
(***************************************************************************)
English == [lc |-> <<"e", "n">>, ln |-> <<"E", "n", "g", "l", "i", "s", "h">>]
Portuguese == [lc |-> <<"p", "t">>, ln |-> <<"P", "o", "r", "t">>]
\* the bodies the languages url may answer: one language, two, one listed twice
LanguageBodies ==
    {Body(<<English>>), Body(<<English, Portuguese>>), Body(<<English, English>>), Malformed}

Version(slug, name, src) == [slug |-> slug, name |-> name, toc |-> <<[src |-> src]>>]
Ulb == Version(<<"u", "l", "b">>, <<"L", "i", "t">>, "01-GEN.usfm")
Udb == Version(<<"u", "d", "b">>, <<"D", "y", "n">>, "02-EXO.usfm")
\* the bodies the catalog url may answer: data.cat is the list given to Body
Catalogs ==
    {Body(<<>>),
     Body(<<[slug |-> "obs", langs |-> <<[lc |-> <<"e", "n">>, vers |-> <<Ulb>>]>>],
            [slug |-> "bible", langs |-> <<[lc |-> <<"e", "n">>, vers |-> <<Ulb, Udb>>],
                                          [lc |-> <<"p", "t", "-", "b", "r">>,
                                           vers |-> <<Ulb>>]>>]>>),
     Body(<<[slug |-> "bible", langs |-> <<[lc |-> <<"p", "t">>, vers |-> <<Udb, Ulb>>]>>],
            [slug |-> "bible", langs |-> <<[lc |-> <<"f", "r">>, vers |-> <<Ulb>>],
                                          [lc |-> <<"e", "n">>, vers |-> <<Udb, Ulb>>]>>]>>),
     Malformed}
\* the status codes a request may answer with
StatusCodes == {200, 404}

(***************************************************************************)
(* The steps of process().                                                 *)
(***************************************************************************)
\* uwObject.process() (210-218)
Process ==
    /\ gpc = "idle"
    /\ InstallGrab(prepareFolder(Grab))
    /\ UNCHANGED genVars

\* del calls back
DelDone ==
    /\ gpc = "del"
    /\ \E error \in BOOLEAN : InstallGrab(delDone(Grab, error))
    /\ UNCHANGED genVars

\* the request of the languages calls back
LanguagesResponse ==
    /\ gpc = "languages"
    /\ \E error \in BOOLEAN, statusCode \in StatusCodes, body \in LanguageBodies :
          InstallGrab(languagesResponse(Grab, error, statusCode, body))
    /\ UNCHANGED genVars

\* the request of the catalog calls back
CatalogResponse ==
    /\ gpc = "catalog"
    /\ \E error \in BOOLEAN, statusCode \in StatusCodes, body \in Catalogs :
          InstallGrab(catalogResponse(Grab, error, statusCode, body))
    /\ UNCHANGED genVars

\* mkdirp calls back for one of the bibles, in any order
MkdirpDone ==
    /\ gpc = "bibles"
    /\ \E i \in 1..Len(dirs), err \in BOOLEAN :
          /\ dirs[i] = "pending"
          /\ InstallGrab(mkdirpDone(Grab, i, err))
    /\ UNCHANGED genVars

NextGrab == Process \/ DelDone \/ LanguagesResponse \/ CatalogResponse \/ MkdirpDone

SpecGrab == Init /\ [][NextGrab]_vars

\* the places of the log that hold the effect e
When(e) == {i \in 1..Len(log) : log[i].e = e}
\* every effect b of the log comes after an effect a
After(a, b) == \A j \in When(b) : \E i \in When(a) : i < j
\* the effects of downloadThisOne
DownloadEffects == {"mkdirp", "write info.json", "write about.html", "download"}

(***************************************************************************)
(* C14: in process() the clean up of the folder has called back before the *)
(* languages are requested, the languages are stored before the catalog is *)
(* requested, and no directory is asked for, no info.json or about.html    *)
(* written and no download started before the callback of getBibles has    *)
(* the list of bibles; the callback of each step is called at most once.   *)
(***************************************************************************)
C14_ProcessStepsInOrder ==
    /\ After("del", "callback prepareFolder")
    /\ After("callback prepareFolder", "request languages")
    /\ After("request languages", "store languageData")
    /\ After("store languageData", "callback downloadLanguageData")
    /\ After("store languageData", "request catalog")
    /\ After("request catalog", "callback getBibles")
    /\ \A e \in DownloadEffects : After("callback getBibles", e)
    /\ When("callback getBibles") = {} => (bibles = <<>> /\ dirs = <<>>)
    /\ \A e \in {"callback prepareFolder", "callback downloadLanguageData",
                 "callback getBibles"} : Cardinality(When(e)) <= 1

\* the three bibles of the catalog have their files written, the second one of
\* the list first
C14_Witness ==
    /\ gpc = "bibles"
    /\ Len(dirs) = 3
    /\ \A i \in 1..3 : dirs[i] = "made"
    /\ Cardinality(When("download")) = 3
    /\ log[Len(log) - 8].id = bibles[2].version_info.id

(***************************************************************************)
(* C15: when the first line of a file is about to be read, in the first    *)
(* file of a call of generate() and in every later one, the four flags are *)
(* false, and right after the clean up at the end of a file they are false *)
(* again.                                                                  *)
(***************************************************************************)
C15_FlagsFalseAtUnitBoundaries ==
    /\ (pc = "lines" /\ ops = <<"file">>) => Flags = <<FALSE, FALSE, FALSE, FALSE>>
    /\ (pc = "files" /\ ops # <<>> /\ ops[Len(ops)] = "pushBook") =>
          Flags = <<FALSE, FALSE, FALSE, FALSE>>

(***************************************************************************)
(* Closes: runs over one file of the records that close blocks before     *)
(* their own fragment, and of the records that open the blocks they close. *)
(***************************************************************************)
CloseRecords ==
    {U("b", <<>>, <<>>), U("c", <<"1">>, <<>>), U("c", <<"2">>, <<>>),
     U("s1", <<>>, <<"t">>), U("v", <<"1">>, <<"a">>), U("p", <<>>, <<>>),
     U("q", <<>>, <<"b">>), U("li", <<>>, <<"c">>), U("f", <<>>, <<"+", " ", "n">>)}

NextCloses ==
    \/ Generate({TRUE}, 1) \/ BeginFile(1) \/ EndFile \/ Finish
    \/ TagB(CloseRecords, CloseTags) \/ TagC(CloseRecords, CloseTags)
    \/ TagHeading(CloseRecords, CloseTags) \/ TagV(CloseRecords, CloseTags)
    \/ TagParagraph(CloseRecords, CloseTags) \/ TagListItem(CloseRecords, CloseTags)
    \/ TagNoteOpen(CloseRecords, CloseTags)

SpecCloses == Init /\ [][NextCloses]_vars

\* the closing fragments owed for the blocks of the state that are among the
\* kinds asked for, verse first, then list item, then text
OwedCloses(verse, listItem, text) ==
    (IF verse /\ verseBlockOpen THEN closeVerse ELSE <<>>)
    \o (IF listItem /\ listItemBlockOpen THEN <<Frag("closeListItem", <<>>, <<>>)>> ELSE <<>>)
    \o (IF text /\ textBlockOpen THEN <<Frag("closeText", <<>>, <<>>)>> ELSE <<>>)
\* the fragments the step appended to the html of the run
Appended == SubSeq(AllHtml', Len(AllHtml) + 1, Len(AllHtml'))

(***************************************************************************)
(* C16: a 'b' record, a 'c' record and a heading record first append the   *)
(* closing fragments of those of verse, list item and text that are open,  *)
(* in that order, and then one fragment of their own; afterwards the flags *)
(* of verse, list item and text are false and the footnote flag is as it   *)
(* was.                                                                    *)
(***************************************************************************)
C16_ClosesBeforeOwnFragment ==
    [][ (ReadsTag /\ LastRead'.key \in {"b", "c"} \cup HeadingKeys) =>
          LET closes == OwedCloses(TRUE, TRUE, TRUE)
              own == Appended[Len(Appended)]
          IN  /\ Len(AllHtml') = Len(AllHtml) + Len(closes) + 1
              /\ SubSeq(AllHtml', 1, Len(AllHtml)) = AllHtml
              /\ SubSeq(Appended, 1, Len(closes)) = closes
              /\ own.k = (IF LastRead'.key = "b" THEN "b"
                          ELSE IF LastRead'.key = "c" THEN "c" ELSE "div")
              /\ currentChapter'.html[Len(currentChapter'.html)] = own
              /\ ~verseBlockOpen' /\ ~listItemBlockOpen' /\ ~textBlockOpen'
              /\ footnoteBlockOpen' = footnoteBlockOpen
      ]_vars

\* a heading has been read with a text block, a list item and a verse open: the
\* three closes precede its fragment
C16_Witness ==
    /\ pc = "lines"
    /\ Len(CurrentUnit) = 4
    /\ LastRead.key = "s1"
    /\ ops = <<"closeVerse", "closeListItem", "closeText", "emit">>
    /\ Len(currentChapter.html) >= 4
    /\ currentChapter.html[Len(currentChapter.html)].k = "div"
    /\ currentChapter.html[Len(currentChapter.html) - 1].k = "closeText"
    /\ currentChapter.html[Len(currentChapter.html) - 3].k = "closeVerse"

\* the fragments a paragraph record u owes in the state: the closes of verse and
\* text, the opening of the text block, and the segment of its text if it has one
ParagraphFragments(u) ==
    OwedCloses(TRUE, FALSE, TRUE)
    \o <<Frag("openText", <<u.key>>, <<>>)>>
    \o (IF u.text = <<>> THEN <<>>
        ELSE openVerse(currentVerse.id, Null) \o <<Frag("text", <<>>, u.text)>> \o closeVerse)

(***************************************************************************)
(* C17: a paragraph or poetry record (cp, m, mi, nb, p, pi, q, q1, q2, q3) *)
(* appends the closing fragments of verse and text if they are open, then  *)
(* one opening text fragment, then, if it has text, a verse segment without*)
(* number that it opens and closes itself; afterwards the text flag is     *)
(* true, the verse flag false, also when the record had text, and the      *)
(* flags of list item and footnote are as they were.                       *)
(***************************************************************************)
C17_ParagraphOpensTextBlock ==
    [][ /\ (ReadsTag /\ LastRead'.key \in ParagraphKeys) =>
              /\ AllHtml' = AllHtml \o ParagraphFragments(LastRead')
              /\ chapterData' = chapterData
              /\ Flags' = <<TRUE, FALSE, footnoteBlockOpen, listItemBlockOpen>>
        /\ pc = "lines" =>
              \A key \in ParagraphKeys, text \in {<<>>, <<"b">>} :
                  LET s == Dispatch(Cur, U(key, <<>>, text), createIndex)
                  IN  /\ s.currentChapter.html =
                            currentChapter.html \o ParagraphFragments(U(key, <<>>, text))
                      /\ s.textBlockOpen /\ ~s.verseBlockOpen
                      /\ s.listItemBlockOpen = listItemBlockOpen
                      /\ s.footnoteBlockOpen = footnoteBlockOpen
      ]_vars

\* a poetry record with text has been read with a verse, a text block, a list
\* item and a footnote open
C17_Witness ==
    /\ pc = "lines"
    /\ Len(CurrentUnit) = 4
    /\ LastRead = U("q", <<>>, <<"b">>)
    /\ ops = <<"closeVerse", "closeText", "openText", "segment">>
    /\ Flags = <<TRUE, FALSE, FALSE, TRUE>>
    /\ currentChapter.html[Len(currentChapter.html)] = closeVerse[1]

\* the fragments a list item record u owes in the state: the closes of verse and
\* list item, the opening of the list item, and its text
ListItemFragments(u) ==
    OwedCloses(TRUE, TRUE, FALSE)
    \o <<Frag("openListItem", <<u.key>>, <<>>)>>
    \o (IF u.text = <<>> THEN <<>> ELSE <<Frag("text", <<>>, u.text)>>)

(***************************************************************************)
(* C18: a list item record (li, li1, li2, li3) appends the closing         *)
(* fragments of verse and list item if they are open, then one opening     *)
(* list item fragment; afterwards the list item flag is true, the verse    *)
(* flag false, and the flags of text and footnote are as they were: an     *)
(* open text block is not closed.                                          *)
(***************************************************************************)
C18_ListItemOpensListItemBlock ==
    [][ /\ (ReadsTag /\ LastRead'.key \in ListItemKeys) =>
              /\ AllHtml' = AllHtml \o ListItemFragments(LastRead')
              /\ chapterData' = chapterData
              /\ Frags(Appended, "closeText") = 0
              /\ Flags' = <<textBlockOpen, FALSE, footnoteBlockOpen, TRUE>>
        /\ pc = "lines" =>
              \A key \in ListItemKeys, text \in {<<>>, <<"c">>} :
                  LET s == Dispatch(Cur, U(key, <<>>, text), createIndex)
                  IN  /\ s.currentChapter.html =
                            currentChapter.html \o ListItemFragments(U(key, <<>>, text))
                      /\ s.listItemBlockOpen /\ ~s.verseBlockOpen
                      /\ s.textBlockOpen = textBlockOpen
                      /\ s.footnoteBlockOpen = footnoteBlockOpen
      ]_vars

\* a list item has been read with a text block, a list item and a verse open:
\* the text block stays open
C18_Witness ==
    /\ pc = "lines"
    /\ Len(CurrentUnit) = 4
    /\ LastRead.key = "li"
    /\ ops = <<"closeVerse", "closeListItem", "openListItem">>
    /\ Flags = <<TRUE, FALSE, FALSE, TRUE>>
    /\ Frags(currentChapter.html, "openText") = 1
    /\ Frags(currentChapter.html, "closeText") = 0

(***************************************************************************)
(* Notes: runs over the records that open and close footnotes and cross    *)
(* references, and a chapter record that flushes.                          *)
(***************************************************************************)
NoteRecords ==
    {U("f", <<>>, <<"+", " ", "n">>), U("x", <<>>, <<"-", " ", "m">>),
     U("f*", <<>>, <<>>), U("c", <<"2">>, <<>>)}

NextNotes ==
    \/ Generate({TRUE}, 1) \/ BeginFile(NoteUnits) \/ EndFile \/ Finish
    \/ TagNoteOpen(NoteRecords, NoteTags) \/ TagNoteClose(NoteRecords, NoteTags)
    \/ TagC(NoteRecords, NoteTags)

SpecNotes == Init /\ [][NextNotes]_vars

\* the note numbers of the opening fragments of the html h, in order
RECURSIVE NoteNumbers(_)
NoteNumbers(h) ==
    IF h = <<>> THEN <<>>
    ELSE (IF Head(h).k = "openNote" THEN <<Head(h).a>> ELSE <<>>) \o NoteNumbers(Tail(h))
\* the decimal numerals of 1, 2, ..., n
Numerals(n) == [k \in 1..n |-> numberToString(k)]
\* for each file in turn, the numerals from 1 to the number of 'f' and 'x'
\* records it holds
RECURSIVE NumbersOwed(_)
NumbersOwed(tr) ==
    IF tr = <<>> THEN <<>>
    ELSE Numerals(Cardinality(Places(Head(tr), NoteOpenKeys))) \o NumbersOwed(Tail(tr))

(***************************************************************************)
(* C19: in a file the k-th record that opens a footnote or a cross         *)
(* reference ('f' and 'x' counted together) carries the note number k,     *)
(* from 1 on: the numbers go up by one from one opening to the next, a     *)
(* chapter record and a closing record do not set them back, and they      *)
(* start at 1 again in every file.                                         *)
(***************************************************************************)
C19_NoteNumbersCountOpensOfUnit ==
    /\ NoteNumbers(AllHtml) = NumbersOwed(trace)
    /\ pc = "lines" => noteNumber = Cardinality(Places(CurrentUnit, NoteOpenKeys)) + 1

\* a returned run of two files: a footnote, a chapter record and a cross
\* reference in the first, a footnote in the second
C19_Witness ==
    /\ pc = "done"
    /\ Len(trace) = 2
    /\ Len(trace[1]) = 3
    /\ trace[1][1].key = "f" /\ trace[1][2].key = "c" /\ trace[1][3].key = "x"
    /\ Len(trace[2]) = 1
    /\ trace[2][1].key = "f"
    /\ NoteNumbers(AllHtml) = << <<"1">>, <<"2">>, <<"1">> >>

(***************************************************************************)
(* Inline: runs over one file of the records that append inline content,   *)
(* and of records that open a verse, open a footnote and fill the registry.*)
(***************************************************************************)
InlineRecords ==
    {U("fqa", <<>>, <<"d">>), U("ft", <<>>, <<"e">>), U("wj", <<>>, <<"w">>),
     U("wj*", <<>>, <<>>), U("v", <<"1">>, <<"a">>), U("f", <<>>, <<"+", " ", "n">>),
     U("zz", <<>>, <<>>)}

NextInline ==
    \/ Generate({TRUE}, 1) \/ BeginFile(1) \/ EndFile \/ Finish
    \/ TagFqa(InlineRecords, InlineTags) \/ TagFt(InlineRecords, InlineTags)
    \/ TagSpanOpen(InlineRecords, InlineTags) \/ TagSpanClose(InlineRecords, InlineTags)
    \/ TagV(InlineRecords, InlineTags) \/ TagNoteOpen(InlineRecords, InlineTags)
    \/ TagDefault(InlineRecords, InlineTags)

SpecInline == Init /\ [][NextInline]_vars

InlineKeys == {"fqa", "ft"} \cup SpanOpenKeys \cup SpanCloseKeys
\* the text t as the html holds it: nothing for the empty text
Literal(t) == IF t = <<>> THEN <<>> ELSE <<Frag("text", <<>>, t)>>
\* what an inline record appends
InlineFragments(u) ==
    CASE u.key = "fqa" -> <<Frag("em", <<>>, u.text)>>
      [] u.key = "ft" -> Literal(u.text)
      [] u.key = "wj" -> <<Frag("openSpan", <<"wj woj">>, <<>>)>> \o Literal(u.text)
      [] u.key = "qs" -> <<Frag("openSpan", <<"qs">>, <<>>)>> \o Literal(u.text)
      [] u.key = "nd" -> <<Frag("openSpan", <<"nog">>, <<>>)>> \o Literal(u.text)
      [] OTHER -> <<Frag("closeSpan", <<>>, <<>>)>>

(***************************************************************************)
(* C20: the records 'fqa' and 'ft' and the span records 'wj', 'wj*', 'qs', *)
(* 'qs*', 'nd', 'nd*' append their fragment to the html of the current     *)
(* chapter and change nothing else: not the four flags, the current verse, *)
(* the note counter, chapterData or the registry of unparsed tags; a span  *)
(* close that no span open precedes is appended too, without an error.     *)
(***************************************************************************)
C20_InlineRecordsOnlyAppend ==
    [][ /\ (ReadsTag /\ LastRead'.key \in InlineKeys) =>
              /\ currentChapter' = [currentChapter EXCEPT
                                        !.html = @ \o InlineFragments(LastRead')]
              /\ pc' = "lines"
              /\ UNCHANGED <<Flags, currentVerse, noteNumber, bibleData, unparsedTags,
                             currentBook, chapterCodes>>
        /\ pc = "lines" =>
              \A key \in InlineKeys, text \in {<<>>, <<"w">>} :
                  LET u == U(key, <<>>, text)
                  IN  [Dispatch(Cur, u, createIndex) EXCEPT !.ops = <<>>] =
                          [Cur EXCEPT !.currentChapter.html = @ \o InlineFragments(u)]
      ]_vars

\* a span close has been read that no span open precedes, a verse being open and
\* a key in the registry
C20_Witness ==
    /\ pc = "lines"
    /\ Len(CurrentUnit) = 3
    /\ CurrentUnit[1].key = "zz" /\ CurrentUnit[2].key = "v"
    /\ LastRead.key = "wj*"
    /\ currentChapter.html[Len(currentChapter.html)] = Frag("closeSpan", <<>>, <<>>)
    /\ Frags(currentChapter.html, "openSpan") = 0
    /\ verseBlockOpen
    /\ unparsedTags = <<"zz">>

(***************************************************************************)
(* Registry: calls of generate() over one file of records whose key has no *)
(* case, the empty key among them, and of records that open blocks.        *)
(***************************************************************************)
\* lines of a call under SpecRegistry
RegistryTags == 3

RegistryRecords ==
    {U("zz", <<>>, <<>>), U("yy", <<>>, <<"t">>), U("", <<>>, <<>>),
     U("v", <<"1">>, <<"a">>), U("p", <<>>, <<>>)}

NextRegistry ==
    \/ Generate({TRUE}, RunCalls) \/ BeginFile(1) \/ EndFile \/ Finish
    \/ TagV(RegistryRecords, RegistryTags) \/ TagParagraph(RegistryRecords, RegistryTags)
    \/ TagDefault(RegistryRecords, RegistryTags)

SpecRegistry == Init /\ [][NextRegistry]_vars

\* keys without a case, for the switch applied in a state
UndefinedKeys == {"zz", "yy", "xx"}
\* the elements of the sequence q
Range(q) == {q[i] : i \in 1..Len(q)}
\* the registry after a record of key k; a line without a tag is no record, the
\* trace holds it under "(line)"
Registered(reg, k) == IF k \in Range(reg) THEN reg ELSE Append(reg, k)

(***************************************************************************)
(* C21: a record whose key has no case and is not empty adds the key to    *)
(* the registry of unparsed tags if and only if the registry does not hold *)
(* it, and changes nothing else: not the html of the chapter, the flags,   *)
(* the verse, chapterData or the calls of the indexer; and in every state  *)
(* the registry holds no key twice, no key that has a case, no empty key.  *)
(***************************************************************************)
C21_UndefinedKeyRegisteredOnce ==
    /\ [](/\ \A i, j \in 1..Len(unparsedTags) :
                unparsedTags[i] = unparsedTags[j] => i = j
          /\ Range(unparsedTags) \cap (KnownKeys \cup {""}) = {})
    /\ [][ /\ (ReadsTag /\ LastRead'.key \notin KnownKeys \cup {"", "(line)"}) =>
                 /\ unparsedTags' = Registered(unparsedTags, LastRead'.key)
                 /\ pc' = "lines"
                 /\ UNCHANGED <<Flags, currentChapter, currentVerse, noteNumber,
                                bibleData, currentBook, chapterCodes>>
           /\ pc = "lines" =>
                 \A key \in UndefinedKeys, text \in {<<>>, <<"t">>} :
                     [Dispatch(Cur, U(key, <<>>, text), createIndex) EXCEPT !.ops = <<>>] =
                         [Cur EXCEPT !.unparsedTags = Registered(@, key)]
         ]_vars

\* in a second call a key the first call recorded has been read again after a new
\* key, a verse being open: the registry holds each once
C21_Witness ==
    /\ runs = 2
    /\ pc = "lines"
    /\ Len(CurrentUnit) = 3
    /\ CurrentUnit[1].key = "v" /\ CurrentUnit[2].key = "yy"
    /\ LastRead.key = "zz"
    /\ unparsedTags = <<"zz", "yy">>
    /\ verseBlockOpen

(***************************************************************************)
(* Titles: runs over one file that names its book, overrides the name and  *)
(* opens chapters. The book is one whose name in the book table is its     *)
(* first English name, so that the default name is the name line 290 reads.*)
(***************************************************************************)
\* lines of a run under SpecTitles
TitleTags == 4

TitleRecords ==
    {U("id", <<>>, <<"J", "O", "B">>), U("toc1", <<>>, <<"T", " ">>),
     U("toc1", <<>>, <<" ">>), U("toc2", <<>>, <<" ", "U">>),
     U("c", <<"1">>, <<>>), U("c", <<"2">>, <<>>)}

NextTitles ==
    \/ Generate({TRUE}, 1) \/ BeginFile(1) \/ EndFile \/ Finish
    \/ TagId(TitleRecords, TitleTags) \/ TagToc1(TitleRecords, TitleTags)
    \/ TagToc2(TitleRecords, TitleTags) \/ TagC(TitleRecords, TitleTags)

SpecTitles == Init /\ [][NextTitles]_vars

(***************************************************************************)
(* C22: a 'c' record read in a file whose book is resolved sets the title  *)
(* of the chapter to the name of the book at that moment (the default name *)
(* of the last 'id', or the text of the last 'toc1' or 'toc2' with text    *)
(* read since), a space and the chapter number; and the id of the chapter  *)
(* to the chapter code of the resolved book code and the number.           *)
(***************************************************************************)
C22_TitleFromBookContext ==
    [][ (ReadsTag /\ LastRead'.key = "c" /\ LastId(CurrentUnit) # 0) =>
            LET number == parseInt(LastRead'.number)
            IN  /\ currentChapter'.title =
                      NameOf(CurrentUnit) \o <<" ">> \o numberToString(number)
                /\ currentChapter'.id =
                      formatChapterCode(BookCodeAt(CurrentUnit', Len(CurrentUnit')), number)
      ]_vars

(***************************************************************************)
(* C23: while the files are read chapterData only grows at its end: every  *)
(* step between the call and the postprocessing (a tag dispatch, a line    *)
(* without a tag, the opening of a file with its fresh accumulators, the   *)
(* clean up at the end of a file) leaves chapterData as it is or appends   *)
(* one record to it, the id, title and html of the records before staying  *)
(* as they were; the end of a file appends exactly one record, a dispatch  *)
(* at most one; the postprocessing is the first step that changes a record.*)
(***************************************************************************)
C23_ChapterDataAppendOnly ==
    [][ /\ (pc \in {"files", "lines"} /\ pc' # "done") =>
              \/ chapterData' = chapterData
              \/ /\ Len(chapterData') = Len(chapterData) + 1
                 /\ SubSeq(chapterData', 1, Len(chapterData)) = chapterData
        /\ (pc = "lines" /\ pc' = "files") =>
              chapterData' = Append(chapterData, chapterData'[Len(chapterData')])
        /\ pc = "lines" =>
              /\ \A u \in ChapterRecords :
                    LET cd == Dispatch(Cur, u, createIndex).bibleData.chapterData
                    IN  \/ cd = chapterData
                        \/ /\ Len(cd) = Len(chapterData) + 1
                           /\ SubSeq(cd, 1, Len(chapterData)) = chapterData
              /\ LET cd == endOfFile(Cur, createIndex).bibleData.chapterData
                 IN  /\ Len(cd) = Len(chapterData) + 1
                     /\ SubSeq(cd, 1, Len(chapterData)) = chapterData
      ]_vars

\* the second file has read 'c 2' after 'c 1': the chapter before is appended
\* behind the record of the first file, which is as the first file left it
C23_Witness ==
    /\ pc = "lines"
    /\ Len(trace) = 2
    /\ Len(trace[1]) = 1 /\ trace[1][1].key = "c"
    /\ Len(CurrentUnit) = 2
    /\ CurrentUnit[1].key = "c" /\ LastRead = U("c", <<"2">>, <<>>)
    /\ Len(chapterData) = 2
    /\ chapterData[1].html = endOfFile(ReadLines(Fresh, trace[1], 1, createIndex),
                                       createIndex).bibleData.chapterData[1].html
    /\ chapterData[1].previd = Undefined

\* the id of the record before and after record i of cd, null at the ends
PrevId(cd, i) == IF i = 1 THEN Null ELSE cd[i - 1].id
NextId(cd, i) == IF i = Len(cd) THEN Null ELSE cd[i + 1].id
\* the html h holds one opening fragment of a chapter, at its head, and one
\* closing fragment, at its end
WrappedOnce(h) ==
    /\ Frags(h, "openChapter") = 1 /\ h[1].k = "openChapter"
    /\ Frags(h, "closeChapter") = 1 /\ h[Len(h)].k = "closeChapter"

(***************************************************************************)
(* C24: the postprocessing runs after the last file has been read and its  *)
(* last chapter flushed, and no file is read after it; it leaves every     *)
(* record with previd and nextid set and with its html wrapped once: the   *)
(* opening fragment made from the record with its navigation already set,  *)
(* the html as assembled, the closing fragment. Before it no record is     *)
(* wrapped or has its navigation set; after it none is left unwrapped.     *)
(***************************************************************************)
C24_PostprocessingAfterAllUnits ==
    /\ [](/\ pc \in {"files", "lines"} =>
                \A i \in 1..Len(chapterData) :
                    /\ Frags(chapterData[i].html, "openChapter") = 0
                    /\ Frags(chapterData[i].html, "closeChapter") = 0
                    /\ chapterData[i].previd = Undefined
                    /\ chapterData[i].nextid = Undefined
          /\ pc = "done" =>
                \A i \in 1..Len(chapterData) :
                    /\ WrappedOnce(chapterData[i].html)
                    /\ chapterData[i].previd = PrevId(chapterData, i)
                    /\ chapterData[i].nextid = NextId(chapterData, i)
                    /\ chapterData[i].html[1].s =
                          toStr(chapterData[i].previd) \o <<"|">> \o toStr(chapterData[i].nextid))
    /\ [][ pc' = "done" =>
               /\ pc = "files"
               /\ Len(bookCodes) = Len(trace)
               /\ trace # <<>> => currentChapter.html = <<>> /\ currentChapter.id = <<>>
               /\ Len(chapterData') = Len(chapterData)
               /\ \A i \in 1..Len(chapterData) :
                     chapterData'[i].html =
                         <<Frag("openChapter", chapterData[i].id,
                                toStr(PrevId(chapterData, i)) \o <<"|">>
                                    \o toStr(NextId(chapterData, i)))>>
                             \o chapterData[i].html \o closeChapterHtml
         ]_vars

\* the run has returned three records of two files: the second is wrapped once
\* and its opening fragment names the ids of the first and of the third
C24_Witness ==
    /\ pc = "done"
    /\ Len(trace) = 2
    /\ Len(chapterData) = 3
    /\ chapterData[1].id # chapterData[3].id
    /\ WrappedOnce(chapterData[2].html)
    /\ chapterData[2].html[1].s = chapterData[1].id \o <<"|">> \o chapterData[3].id

(***************************************************************************)
(* Units: runs over files that name their book and override its name and   *)
(* abbreviation, met among files without the .usfm extension.              *)
(***************************************************************************)
UnitRecords ==
    {U("id", <<>>, <<"G", "E", "N">>), U("id", <<>>, <<"J", "O", "B">>),
     U("toc1", <<>>, <<"T", " ">>), U("toc3", <<>>, <<"V">>), U("c", <<"1">>, <<>>)}

NextUnits ==
    \/ Generate({TRUE}, 1) \/ SkipFile \/ BeginFile(TocUnits) \/ EndFile \/ Finish
    \/ TagId(UnitRecords, TocTags) \/ TagToc1(UnitRecords, TocTags)
    \/ TagToc3(UnitRecords, TocTags) \/ TagC(UnitRecords, TocTags)

SpecUnits == Init /\ [][NextUnits]_vars

\* the book code the file unit has at its end
BookCodeOf(unit) == BookCodeAt(unit, Len(unit) + 1)

(***************************************************************************)
(* C25: after a run the lists divisions, divisionNames and                 *)
(* divisionAbbreviations written to info hold one entry for each .usfm     *)
(* file read, in the order the files were read, entry i of each list being *)
(* the book code, the name and the abbreviation of file i; a file without  *)
(* the .usfm extension adds no entry to a list and no record to            *)
(* chapterData.                                                            *)
(***************************************************************************)
C25_OneDivisionPerUnit ==
    /\ [](pc = "done" =>
            /\ Len(info.divisions) = Len(trace)
            /\ Len(info.divisionNames) = Len(trace)
            /\ Len(info.divisionAbbreviations) = Len(trace)
            /\ \A i \in 1..Len(trace) :
                  /\ info.divisions[i] = BookCodeOf(trace[i])
                  /\ info.divisionNames[i] = NameOf(trace[i])
                  /\ info.divisionAbbreviations[i] = AbbreviationOf(trace[i]))
    /\ [][ /\ other' # other =>
                 UNCHANGED <<bookCodes, bookNames, bookAbbreviations, chapterCodes,
                             bibleData, info, trace, Flags, unparsedTags>>
           /\ (pc = "lines" /\ pc' = "files") =>
                 /\ Len(bookCodes') = Len(bookCodes) + 1
                 /\ Len(bookNames') = Len(bookNames) + 1
                 /\ Len(bookAbbreviations') = Len(bookAbbreviations) + 1
         ]_vars

\* a run has returned that read a file of Genesis with a 'toc1', met a file
\* without the extension, and read a file of Job
C25_Witness ==
    /\ pc = "done"
    /\ other = 1
    /\ Len(trace) = 2
    /\ info.divisions = << <<"G", "N">>, <<"J", "B">> >>
    /\ info.divisionNames = << <<"T">>, <<"J", "o", "b">> >>
    /\ info.divisionAbbreviations = << <<"G", "e", "n">>, <<"J", "o", "b">> >>
    /\ Len(chapterData) = 2

(***************************************************************************)
(* C26: after a run the list sections written to info is, in length and    *)
(* element by element, the sequence of the ids of the records of           *)
(* chapterData, and every record has an id that is not empty.              *)
(***************************************************************************)
C26_SectionsAreRecordIds ==
    pc = "done" =>
        /\ Len(info.sections) = Len(chapterData)
        /\ \A i \in 1..Len(chapterData) :
              /\ chapterData[i].id # <<>>
              /\ i <= Len(info.sections) => info.sections[i] = chapterData[i].id

\* the opening and the closing fragment of each kind of block
BlockKinds ==
    {<<"openVerse", "closeVerse">>, <<"openText", "closeText">>,
     <<"openListItem", "closeListItem">>, <<"openNote", "closeNote">>}
\* the html h holds as many closing as opening fragments of the kind
Balanced(h, kind) == Frags(h, kind[1]) = Frags(h, kind[2])

(***************************************************************************)
(* C27: every record of chapterData is balanced from the moment it is      *)
(* appended, by a 'c' record or by the end of a file: for each kind of     *)
(* block (verse, text, list item, footnote) its html holds as many closing *)
(* fragments as opening fragments.                                         *)
(***************************************************************************)
C27_RecordsAreBalanced ==
    \A i \in 1..Len(chapterData) :
        \A kind \in BlockKinds : Balanced(chapterData[i].html, kind)

(***************************************************************************)
(* C28: in every state at most one of textBlockOpen and listItemBlockOpen  *)
(* is true: a text block and a list-item block are never open together,    *)
(* whatever records were read.                                             *)
(***************************************************************************)
C28_TextAndListItemNeverBothOpen ==
    ~(textBlockOpen /\ listItemBlockOpen)

\* the effects that follow the callback of a step of process()
ChainEffects ==
    {"callback prepareFolder", "request languages", "store languageData",
     "callback downloadLanguageData", "request catalog", "callback getBibles"}
        \cup DownloadEffects
\* the chain ended without an error raised: nothing else changed
Silent(g) == g = [Grab EXCEPT !.gpc = "stopped"]

(***************************************************************************)
(* C29: in the chain of process() an error of the folder clean up ends the *)
(* chain without its callback: the languages are never requested; an error *)
(* or a status other than 200 of the languages request ends it without its *)
(* callback: the catalog is never requested and no bible downloaded; both  *)
(* end without an error raised and leave languageData as it was. Of the    *)
(* three, only an error or a status other than 200 of the catalog request  *)
(* raises an error. Nothing follows the end of the chain.                  *)
(***************************************************************************)
C29_FailedStepStopsChain ==
    /\ [](gpc = "stopped" =>
            /\ languageData = <<>>
            /\ bibles = <<>> /\ dirs = <<>>
            /\ When("request catalog") = {}
            /\ \A e \in DownloadEffects : When(e) = {}
            /\ \/ /\ log[Len(log)].e = "del"
                  /\ \A e \in ChainEffects : When(e) = {}
               \/ /\ log[Len(log)].e = "request languages"
                  /\ When("callback downloadLanguageData") = {}
                  /\ When("store languageData") = {})
    /\ [][ /\ gpc \notin {"stopped", "crashed"}
           /\ gpc = "del" => Silent(delDone(Grab, TRUE))
           /\ gpc = "languages" =>
                 \A statusCode \in StatusCodes, body \in LanguageBodies :
                     /\ Silent(languagesResponse(Grab, TRUE, statusCode, body))
                     /\ statusCode # 200 =>
                           Silent(languagesResponse(Grab, FALSE, statusCode, body))
           /\ gpc = "catalog" =>
                 \A statusCode \in StatusCodes, body \in Catalogs :
                     /\ catalogResponse(Grab, TRUE, statusCode, body) =
                            [Grab EXCEPT !.gpc = "crashed"]
                     /\ statusCode # 200 =>
                           catalogResponse(Grab, FALSE, statusCode, body) =
                               [Grab EXCEPT !.gpc = "crashed"]
         ]_vars

\* the clean up called back without an error, the languages were requested and
\* the request failed: the chain has ended and the catalog was never requested
C29_Witness ==
    /\ gpc = "stopped"
    /\ When("callback prepareFolder") # {}
    /\ log[Len(log)].e = "request languages"
    /\ When("request catalog") = {}
    /\ languageData = <<>>

=============================================================================
